---- MODULE Spec2Model ----
(***************************************************************************)
(* Model of the SDS011 protocol engine: the response decoder               *)
(* (parse_packet and the per-response parsers), the Reader thread with its *)
(* frame accumulator (read_thread) and the retry / correlation layer.      *)
(* Byte offsets are written 0-based as in the source; At(s, i) reads the   *)
(* byte at offset i of the 1-based TLA+ sequence s.                        *)
(***************************************************************************)
EXTENDS Integers, Sequences, FiniteSets, TLC

\* ------------------------------------------------------------------------
\* Bounds of the model
\* ------------------------------------------------------------------------

\* number of segments the transport delivers to the Reader in one run
MaxSegs == 3

\* largest number of attempts a RetryConfig of the model allows
MaxRetries == 5

\* number of responses the response stream delivers in one run
MaxDeliver == 3

\* attempts of the calls made under a flow of responses
MaxFlowRetries == 2

\* ------------------------------------------------------------------------
\* Protocol constants
\* ------------------------------------------------------------------------

\* header marker 0xAA
HEAD == 170

\* tail marker 0xAB
TAIL == 171

\* length of a response frame
FRAME_LEN == 10

\* command id of an (unsolicited or requested) reading, 0xC0
CMD_QUERY == 192

\* command id shared by all other responses, 0xC5
CMD_REPLY == 197

Byte == 0..255

At(s, i) == s[i + 1]

\* &s[a..=b] with 0-based inclusive offsets
Slice(s, a, b) == SubSeq(s, a + 1, b + 1)

VARIABLES
  \* Reader (read_thread) and its transport
  port_rx,          \* bytes the transport holds for the Reader, oldest first
  nsegs,            \* number of segments the transport has delivered
  current_packet,   \* Option<BytesMut> of read_thread
  responses,        \* messages sent on tx (response stream), oldest first
  control,          \* messages sent on control_tx, oldest first
  reader_pc,        \* "running" | "done" | "ended"
  history,          \* one record per step of the Reader's loop
  \* decoder probe (parse_packet applied to one frame)
  probe_pc,         \* "fresh" | "parsed" | "corrupted"
  packet,           \* the frame handed to parse_packet
  result,           \* what parse_packet returned for it
  original,         \* the frame before a single byte of it was changed
  \* retry / correlation layer (one call of send_and_wait)
  sw_pc,            \* "idle" | "send" | "poll" | "returned"
  config,           \* the RetryConfig of the call
  sw_command,       \* the command of the call
  attempt,          \* number of the attempt in progress, from 1
  elapsed,          \* milliseconds slept in the attempt in progress
  unrelated,        \* the unrelated-responses accumulator
  outcome,          \* what the call returned
  command_queue,    \* Cmds sent on command_tx, oldest first
  ndelivered,       \* number of responses the stream has delivered
  received,         \* every response the call took from the stream
  \* Writer (write_thread) and its transport
  writer_pc,        \* "running" | "writing" | "reported" | "done" | "exited"
  port_tx,          \* the byte runs the transport took, one per write
  enqueued,         \* every Cmd a client put on the queue, in order
  send_failed,      \* number of sends refused because the queue is closed
  senders_alive,    \* some Sender<Cmd> of the command queue is not dropped
  write_cmd,        \* the Cmd whose bytes write_all is writing, or NoCmd
  write_taken,      \* number of its bytes the transport has taken
  wlog,             \* one record per command the Writer took off the queue
  \* encoder probe (Command::write applied to one command)
  enc_pc,           \* "fresh" | "written"
  enc_command,      \* the command handed to the encoder
  enc_bytes,        \* what Command::write put in the buffer
  \* one call of a conversion function
  call_pc,          \* "fresh" | "returned"
  arg,              \* the argument of the call
  ret               \* what the call returned

vars == <<port_rx, nsegs, current_packet, responses, control, reader_pc,
          history, probe_pc, packet, result, original, sw_pc, config,
          sw_command, attempt, elapsed, unrelated, outcome, command_queue,
          ndelivered, received, writer_pc, port_tx, enqueued, send_failed,
          senders_alive, write_cmd, write_taken,
          wlog, enc_pc, enc_command, enc_bytes, call_pc, arg, ret>>

readerVars == <<port_rx, nsegs, current_packet, responses, control,
                reader_pc, history>>

probeVars == <<probe_pc, packet, result, original>>

retryVars == <<sw_pc, config, sw_command, attempt, elapsed, unrelated,
               outcome, command_queue, ndelivered, received>>

writerVars ==
  <<writer_pc, port_tx, enqueued, send_failed, senders_alive, write_cmd,
    write_taken, wlog>>

encVars == <<enc_pc, enc_command, enc_bytes>>

callVars == <<call_pc, arg, ret>>

\* ------------------------------------------------------------------------
\* util.rs / lib.rs : checksum and the byte <-> enum conversions
\* ------------------------------------------------------------------------

RECURSIVE SumU16(_)
\* bytes.iter().map(|b| *b as u16).sum() with a 16-bit accumulator
SumU16(bytes) ==
  IF bytes = <<>> THEN 0
  ELSE (Head(bytes) + SumU16(Tail(bytes))) % 65536

\* sum.to_le_bytes()[0]
checksum(bytes) == SumU16(bytes) % 256

WorkMode_from_byte(byte) == IF byte = 0 THEN "Sleep" ELSE "Work"

ReportingMode_from_byte(byte) == IF byte = 0 THEN "Active" ELSE "Query"

\* a from_byte that keeps the period within 30 minutes
WorkingPeriod_from_byte_Clamp(byte) ==
  IF byte = 0 THEN [tag |-> "Continuous"]
  ELSE [tag |-> "Periodic", n |-> IF byte > 30 THEN 30 ELSE byte]

WorkingPeriod_from_byte(byte) ==
  IF byte = 0 THEN [tag |-> "Continuous"]
  ELSE [tag |-> "Periodic", n |-> byte]

\* buf.get_u16() : big-endian pair at offsets i, i+1
GetU16(buf, i) == At(buf, i) * 256 + At(buf, i + 1)

\* buf.get_u16_le() : little-endian pair at offsets i, i+1
GetU16Le(buf, i) == At(buf, i) + 256 * At(buf, i + 1)

\* ------------------------------------------------------------------------
\* response.rs : the six response parsers
\* pm25 / pm10 are kept as the raw 16-bit value, i.e. in tenths of ug/m3
\* ------------------------------------------------------------------------

SetReportingModeResponse_parse(buf) ==
  [kind |-> "SetReportingMode", query |-> (At(buf, 3) = 0),
   mode |-> ReportingMode_from_byte(At(buf, 4)), device |-> GetU16(buf, 6)]

\* a parser that reads the two readings big-endian
QueryResponse_parse_BigEndian(buf) ==
  [kind |-> "Query", pm25 |-> GetU16(buf, 2), pm10 |-> GetU16(buf, 4),
   device |-> GetU16(buf, 6)]

QueryResponse_parse(buf) ==
  [kind |-> "Query", pm25 |-> GetU16Le(buf, 2), pm10 |-> GetU16Le(buf, 4),
   device |-> GetU16(buf, 6)]

SetDeviceIdResponse_parse(buf) ==
  [kind |-> "SetDeviceId", device |-> GetU16(buf, 6)]

SetSleepWorkResponse_parse(buf) ==
  [kind |-> "SetSleepWork", query |-> (At(buf, 3) = 0),
   mode |-> WorkMode_from_byte(At(buf, 4)), device |-> GetU16(buf, 6)]

\* a parser that does not skip the reserved byte before the device id
SetWorkingPeriodResponse_parse_NoSkip(buf) ==
  [kind |-> "SetWorkingPeriod", query |-> (At(buf, 3) = 0),
   working_period |-> WorkingPeriod_from_byte(At(buf, 4)),
   device |-> GetU16(buf, 5)]

SetWorkingPeriodResponse_parse(buf) ==
  [kind |-> "SetWorkingPeriod", query |-> (At(buf, 3) = 0),
   working_period |-> WorkingPeriod_from_byte(At(buf, 4)),
   device |-> GetU16(buf, 6)]

GetFirmwareVersionResponse_parse(buf) ==
  [kind |-> "GetFirmwareVersion", year |-> At(buf, 3), month |-> At(buf, 4),
   day |-> At(buf, 5), device |-> GetU16(buf, 6)]

\* ------------------------------------------------------------------------
\* lib.rs : parse_packet
\* ------------------------------------------------------------------------

\* Error::PacketError(..); the message names the reason and quotes the packet
PacketError(reason, pkt) ==
  [ok |-> FALSE, error |-> "PacketError", reason |-> reason, packet |-> pkt]

Ok(resp) == [ok |-> TRUE, resp |-> resp]

\* the match with the arms for 0x07 and 0x08 exchanged
Dispatch_SwappedArms(buf) ==
  LET command == At(buf, 1)
      command_extra == At(buf, 2)
  IN  IF command = CMD_QUERY THEN Ok(QueryResponse_parse(buf))
      ELSE IF command = CMD_REPLY /\ command_extra = 2
        THEN Ok(SetReportingModeResponse_parse(buf))
      ELSE IF command = CMD_REPLY /\ command_extra = 5
        THEN Ok(SetDeviceIdResponse_parse(buf))
      ELSE IF command = CMD_REPLY /\ command_extra = 6
        THEN Ok(SetSleepWorkResponse_parse(buf))
      ELSE IF command = CMD_REPLY /\ command_extra = 7
        THEN Ok(SetWorkingPeriodResponse_parse(buf))
      ELSE IF command = CMD_REPLY /\ command_extra = 8
        THEN Ok(GetFirmwareVersionResponse_parse(buf))
      ELSE PacketError("invalid command", buf)

\* the match on (command, command_extra) of parse_packet
Dispatch(buf) ==
  LET command == At(buf, 1)
      command_extra == At(buf, 2)
  IN  IF command = CMD_QUERY THEN Ok(QueryResponse_parse(buf))
      ELSE IF command = CMD_REPLY /\ command_extra = 2
        THEN Ok(SetReportingModeResponse_parse(buf))
      ELSE IF command = CMD_REPLY /\ command_extra = 5
        THEN Ok(SetDeviceIdResponse_parse(buf))
      ELSE IF command = CMD_REPLY /\ command_extra = 6
        THEN Ok(SetSleepWorkResponse_parse(buf))
      ELSE IF command = CMD_REPLY /\ command_extra = 8
        THEN Ok(SetWorkingPeriodResponse_parse(buf))
      ELSE IF command = CMD_REPLY /\ command_extra = 7
        THEN Ok(GetFirmwareVersionResponse_parse(buf))
      ELSE PacketError("invalid command", buf)

\* the checksum test taken over packet[2..=6] only
ChecksumOk_ShortSpan(pkt) == checksum(Slice(pkt, 2, 6)) = At(pkt, 8)

\* the checksum test of parse_packet
ChecksumOk(pkt) == checksum(Slice(pkt, 2, 7)) = At(pkt, 8)

\* a parse_packet that looks at the id pair before the checksum
parse_packet_IdFirst(pkt) ==
  IF Len(pkt) # FRAME_LEN THEN PacketError("invalid length", pkt)
  ELSE IF ~Dispatch(pkt).ok THEN Dispatch(pkt)
  ELSE IF ~ChecksumOk(pkt) THEN PacketError("invalid checksum", pkt)
  ELSE Dispatch(pkt)

\* a parse_packet that also requires the tail marker
parse_packet_TailChecked(pkt) ==
  IF Len(pkt) # FRAME_LEN THEN PacketError("invalid length", pkt)
  ELSE IF ~ChecksumOk(pkt) THEN PacketError("invalid checksum", pkt)
  ELSE IF At(pkt, 9) # TAIL THEN PacketError("invalid tail", pkt)
  ELSE Dispatch(pkt)

parse_packet(pkt) ==
  IF Len(pkt) # FRAME_LEN THEN PacketError("invalid length", pkt)
  ELSE IF ~ChecksumOk(pkt) THEN PacketError("invalid checksum", pkt)
  ELSE Dispatch(pkt)

\* ------------------------------------------------------------------------
\* util.rs : enum -> byte
\* ------------------------------------------------------------------------

WorkMode_as_byte(mode) == IF mode = "Sleep" THEN 0 ELSE 1

ReportingMode_as_byte(mode) == IF mode = "Active" THEN 0 ELSE 1

WorkingPeriod_as_byte(wp) == IF wp.tag = "Continuous" THEN 0 ELSE wp.n

\* ------------------------------------------------------------------------
\* command.rs : the command encoder
\* A command is a record [kind, ...fields]; a Cmd is [data |-> bytes].
\* ------------------------------------------------------------------------

\* command id shared by every command, 0xB4
CMD_ID == 180

\* &[b; n][..]
Fill(b, n) == [k \in 1..n |-> b]

\* bytes.put_u16(v) : big-endian
PutU16(v) == <<v \div 256, v % 256>>

QueryFlag(query) == IF query THEN 0 ELSE 1

\* Command::data of the six commands
Command_data(cmd) ==
  CASE cmd.kind = "SetReportingMode" ->
         <<2, QueryFlag(cmd.query), ReportingMode_as_byte(cmd.mode)>>
           \o Fill(0, 10) \o Fill(255, 2)
    [] cmd.kind = "Query" -> <<4>> \o Fill(0, 12) \o Fill(255, 2)
    [] cmd.kind = "SetDeviceId" ->
         <<5>> \o Fill(0, 10) \o PutU16(cmd.id) \o Fill(255, 2)
    [] cmd.kind = "SetSleepWork" ->
         <<6, QueryFlag(cmd.query), WorkMode_as_byte(cmd.mode)>>
           \o Fill(0, 10) \o Fill(255, 2)
    [] cmd.kind = "SetWorkingPeriod" ->
         <<8, QueryFlag(cmd.query), WorkingPeriod_as_byte(cmd.working_period)>>
           \o Fill(0, 10) \o Fill(255, 2)
    [] cmd.kind = "GetFirmwareVersion" ->
         <<7>> \o Fill(0, 12) \o Fill(255, 2)

\* a write whose checksum also covers the command id
Command_write_SumWithId(cmd) ==
  LET data_bytes == Command_data(cmd)
  IN  <<HEAD, CMD_ID>> \o data_bytes
        \o <<checksum(<<CMD_ID>> \o data_bytes), TAIL>>

\* Command::write
Command_write(cmd) ==
  LET data_bytes == Command_data(cmd)
  IN  <<HEAD, CMD_ID>> \o data_bytes \o <<checksum(data_bytes), TAIL>>

\* Command::to_cmd
to_cmd(cmd) == [data |-> Command_write(cmd)]

\* a ResponseType that is QueryResponse whatever the command
ResponseType_Query(cmd) == "QueryResponse"

\* type ResponseType of the six Command impls
ResponseType(cmd) ==
  CASE cmd.kind = "SetReportingMode" -> "SetReportingModeResponse"
    [] cmd.kind = "Query" -> "QueryResponse"
    [] cmd.kind = "SetDeviceId" -> "SetDeviceIdResponse"
    [] cmd.kind = "SetSleepWork" -> "SetSleepWorkResponse"
    [] cmd.kind = "SetWorkingPeriod" -> "SetWorkingPeriodResponse"
    [] cmd.kind = "GetFirmwareVersion" -> "GetFirmwareVersionResponse"

\* ------------------------------------------------------------------------
\* response.rs : Resp::try_into_response and the six unpack_resp
\* ------------------------------------------------------------------------

\* the struct inside a Resp variant
Inner(resp) == [f \in (DOMAIN resp) \ {"kind"} |-> resp[f]]

\* an unpack_resp table whose SetWorkingPeriodResponse arm matches the
\* SetReportingMode variant
VariantOf_ModeForPeriod(T) ==
  CASE T = "SetReportingModeResponse" -> "SetReportingMode"
    [] T = "QueryResponse" -> "Query"
    [] T = "SetDeviceIdResponse" -> "SetDeviceId"
    [] T = "SetSleepWorkResponse" -> "SetSleepWork"
    [] T = "SetWorkingPeriodResponse" -> "SetReportingMode"
    [] T = "GetFirmwareVersionResponse" -> "GetFirmwareVersion"

\* the Resp variant each unpack_resp accepts
VariantOf(T) ==
  CASE T = "SetReportingModeResponse" -> "SetReportingMode"
    [] T = "QueryResponse" -> "Query"
    [] T = "SetDeviceIdResponse" -> "SetDeviceId"
    [] T = "SetSleepWorkResponse" -> "SetSleepWork"
    [] T = "SetWorkingPeriodResponse" -> "SetWorkingPeriod"
    [] T = "GetFirmwareVersionResponse" -> "GetFirmwareVersion"

\* an unpack_resp whose first arm accepts every variant
unpack_resp_AcceptAny(T, resp) == [ok |-> TRUE, resp |-> Inner(resp)]

\* an unpack_resp that also accepts a reading
unpack_resp_AcceptQuery(T, resp) ==
  IF resp.kind = VariantOf(T) \/ resp.kind = "Query"
    THEN [ok |-> TRUE, resp |-> Inner(resp)]
    ELSE [ok |-> FALSE, error |-> "InvalidResponseConversion",
          resp |-> resp, target |-> T]

\* an unpack_resp whose error names the variant it was given
unpack_resp_NamesVariant(T, resp) ==
  IF resp.kind = VariantOf(T)
    THEN [ok |-> TRUE, resp |-> Inner(resp)]
    ELSE [ok |-> FALSE, error |-> "InvalidResponseConversion",
          resp |-> resp, target |-> resp.kind \o "Response"]

\* T::unpack_resp(resp)
unpack_resp(T, resp) ==
  IF resp.kind = VariantOf(T)
    THEN [ok |-> TRUE, resp |-> Inner(resp)]
    ELSE [ok |-> FALSE, error |-> "InvalidResponseConversion",
          resp |-> resp, target |-> T]

\* Resp::try_into_response::<T>()
try_into_response(resp, T) == unpack_resp(T, resp)

\* ------------------------------------------------------------------------
\* lib.rs : ControlMessage and the body of read_thread's loop
\* ------------------------------------------------------------------------

None == [some |-> FALSE, buf |-> <<>>]

Some(buf) == [some |-> TRUE, buf |-> buf]

\* ControlMessage::Error(e)
CtlError(e) == [level |-> "Error", error |-> e.error, reason |-> e.reason,
                packet |-> e.packet]

\* ControlMessage::FatalError(Error::ReadError(e))
CtlFatalRead == [level |-> "FatalError", error |-> "ReadError"]

\* Feed that starts a new buffer on every header byte
Feed_RestartOnHead(cur, byte) ==
  IF byte = HEAD THEN [cur |-> Some(<<byte>>), tx |-> <<>>, ctl |-> <<>>]
  ELSE IF cur.some THEN
    LET pkt == Append(cur.buf, byte)
    IN  IF Len(pkt) = FRAME_LEN THEN
          LET r == parse_packet(pkt)
          IN  [cur |-> None,
               tx  |-> IF r.ok THEN <<r.resp>> ELSE <<>>,
               ctl |-> IF r.ok THEN <<>> ELSE <<CtlError(r)>>]
        ELSE [cur |-> Some(pkt), tx |-> <<>>, ctl |-> <<>>]
  ELSE [cur |-> None, tx |-> <<>>, ctl |-> <<>>]

\* Feed that takes the frame to be complete one byte late
Feed_CompleteAtEleven(cur, byte) ==
  IF cur.some THEN
    LET pkt == Append(cur.buf, byte)
    IN  IF Len(pkt) = FRAME_LEN + 1 THEN
          LET r == parse_packet(pkt)
          IN  [cur |-> None,
               tx  |-> IF r.ok THEN <<r.resp>> ELSE <<>>,
               ctl |-> IF r.ok THEN <<>> ELSE <<CtlError(r)>>]
        ELSE IF Len(pkt) > FRAME_LEN + 1 THEN
          [cur |-> Some(pkt), tx |-> <<>>,
           ctl |-> <<CtlError(PacketError("too long", pkt))>>]
        ELSE [cur |-> Some(pkt), tx |-> <<>>, ctl |-> <<>>]
  ELSE IF byte = HEAD THEN [cur |-> Some(<<byte>>), tx |-> <<>>, ctl |-> <<>>]
  ELSE [cur |-> None, tx |-> <<>>, ctl |-> <<>>]

\* Feed without the header test: any byte read while Idle starts a buffer
Feed_AnyByteStarts(cur, byte) ==
  IF cur.some THEN
    LET pkt == Append(cur.buf, byte)
    IN  IF Len(pkt) = FRAME_LEN THEN
          LET r == parse_packet(pkt)
          IN  [cur |-> None,
               tx  |-> IF r.ok THEN <<r.resp>> ELSE <<>>,
               ctl |-> IF r.ok THEN <<>> ELSE <<CtlError(r)>>]
        ELSE [cur |-> Some(pkt), tx |-> <<>>, ctl |-> <<>>]
  ELSE [cur |-> Some(<<byte>>), tx |-> <<>>, ctl |-> <<>>]

\* Feed that reports nothing for a frame that fails decoding
Feed_SilentOnError(cur, byte) ==
  IF cur.some THEN
    LET pkt == Append(cur.buf, byte)
    IN  IF Len(pkt) = FRAME_LEN THEN
          LET r == parse_packet(pkt)
          IN  [cur |-> None,
               tx  |-> IF r.ok THEN <<r.resp>> ELSE <<>>,
               ctl |-> <<>>]
        ELSE [cur |-> Some(pkt), tx |-> <<>>, ctl |-> <<>>]
  ELSE IF byte = HEAD THEN [cur |-> Some(<<byte>>), tx |-> <<>>, ctl |-> <<>>]
  ELSE [cur |-> None, tx |-> <<>>, ctl |-> <<>>]

\* Feed that keeps the buffer of a frame that fails decoding
Feed_KeepOnError(cur, byte) ==
  IF cur.some THEN
    LET pkt == Append(cur.buf, byte)
    IN  IF Len(pkt) = FRAME_LEN THEN
          LET r == parse_packet(pkt)
          IN  [cur |-> IF r.ok THEN None ELSE Some(pkt),
               tx  |-> IF r.ok THEN <<r.resp>> ELSE <<>>,
               ctl |-> IF r.ok THEN <<>> ELSE <<CtlError(r)>>]
        ELSE IF Len(pkt) > FRAME_LEN THEN
          [cur |-> Some(pkt), tx |-> <<>>,
           ctl |-> <<CtlError(PacketError("too long", pkt))>>]
        ELSE [cur |-> Some(pkt), tx |-> <<>>, ctl |-> <<>>]
  ELSE IF byte = HEAD THEN [cur |-> Some(<<byte>>), tx |-> <<>>, ctl |-> <<>>]
  ELSE [cur |-> None, tx |-> <<>>, ctl |-> <<>>]

\* Feed that never clears the buffer once a frame is complete
Feed_NoReset(cur, byte) ==
  IF cur.some THEN
    LET pkt == Append(cur.buf, byte)
    IN  IF Len(pkt) = FRAME_LEN THEN
          LET r == parse_packet(pkt)
          IN  [cur |-> Some(pkt),
               tx  |-> IF r.ok THEN <<r.resp>> ELSE <<>>,
               ctl |-> IF r.ok THEN <<>> ELSE <<CtlError(r)>>]
        ELSE IF Len(pkt) > FRAME_LEN THEN
          [cur |-> Some(pkt), tx |-> <<>>,
           ctl |-> <<CtlError(PacketError("too long", pkt))>>]
        ELSE [cur |-> Some(pkt), tx |-> <<>>, ctl |-> <<>>]
  ELSE IF byte = HEAD THEN [cur |-> Some(<<byte>>), tx |-> <<>>, ctl |-> <<>>]
  ELSE [cur |-> None, tx |-> <<>>, ctl |-> <<>>]

\* One pass of the loop body for a byte that was read successfully:
\* the new current_packet and what is sent on tx and on control_tx.
Feed(cur, byte) ==
  IF cur.some THEN
    LET pkt == Append(cur.buf, byte)
    IN  IF Len(pkt) = FRAME_LEN THEN
          LET r == parse_packet(pkt)
          IN  [cur |-> None,
               tx  |-> IF r.ok THEN <<r.resp>> ELSE <<>>,
               ctl |-> IF r.ok THEN <<>> ELSE <<CtlError(r)>>]
        ELSE IF Len(pkt) > FRAME_LEN THEN
          [cur |-> Some(pkt), tx |-> <<>>,
           ctl |-> <<CtlError(PacketError("too long", pkt))>>]
        ELSE [cur |-> Some(pkt), tx |-> <<>>, ctl |-> <<>>]
  ELSE IF byte = HEAD THEN [cur |-> Some(<<byte>>), tx |-> <<>>, ctl |-> <<>>]
  ELSE [cur |-> None, tx |-> <<>>, ctl |-> <<>>]

\* length of the accumulator's buffer, 0 when it is Idle
BufLen(cur) == IF cur.some THEN Len(cur.buf) ELSE 0

\* ------------------------------------------------------------------------
\* The transport: what the serial line can deliver to the Reader
\* ------------------------------------------------------------------------

\* AA C0 34 00 50 00 A1 60 85 AB : reading pm25 = 5.2, pm10 = 8.0
FrameQuery == <<170, 192, 52, 0, 80, 0, 161, 96, 133, 171>>

\* AA C5 08 00 05 00 A1 60 0E AB : working period reply, Periodic(5)
FramePeriod == <<170, 197, 8, 0, 5, 0, 161, 96, 14, 171>>

\* a reading whose data and checksum bytes equal the header marker
FrameHeadInside == <<170, 192, 170, 0, 0, 0, 0, 0, 170, 171>>

\* FrameQuery with a wrong checksum byte
FrameBadChecksum == <<170, 192, 52, 0, 80, 0, 161, 96, 0, 171>>

\* checksum-valid frame with the unknown id pair (0xC5, 0x03)
FrameUnknown == <<170, 197, 3, 0, 0, 0, 161, 96, 4, 171>>

\* a header followed by eleven bytes, none of them a header
Overlong == <<170, 1, 2, 3, 4, 5, 6, 7, 8, 9, 10, 11>>

\* the first five bytes of FrameQuery, the rest never sent
HalfFrame == <<170, 192, 52, 0, 80>>

Segments ==
  { FrameQuery, FramePeriod, FrameHeadInside, FrameBadChecksum, FrameUnknown,
    Overlong, HalfFrame, <<0>>, <<TAIL>>, <<HEAD>> }

\* ------------------------------------------------------------------------
\* Actions of the Reader and its transport
\* ------------------------------------------------------------------------

\* the serial line delivers the next run of bytes
Arrive ==
  /\ reader_pc = "running"
  /\ port_rx = <<>>
  /\ nsegs < MaxSegs
  /\ \E seg \in Segments : port_rx' = seg
  /\ nsegs' = nsegs + 1
  /\ UNCHANGED <<current_packet, responses, control, reader_pc, history>>
  /\ UNCHANGED probeVars
  /\ UNCHANGED retryVars
  /\ UNCHANGED writerVars
  /\ UNCHANGED encVars
  /\ UNCHANGED callVars

\* a loop body that puts the newest response at the front of the stream
ReadByte_NewestFirst ==
  /\ reader_pc = "running"
  /\ port_rx # <<>>
  /\ LET byte == Head(port_rx)
         f == Feed(current_packet, byte)
     IN  /\ current_packet' = f.cur
         /\ responses' = f.tx \o responses
         /\ control' = control \o f.ctl
         /\ history' = Append(history,
              [byte |-> byte,
               len_before |-> BufLen(current_packet),
               len_after |-> BufLen(f.cur),
               nresp |-> Len(responses) + Len(f.tx),
               nctl |-> Len(control) + Len(f.ctl)])
  /\ port_rx' = Tail(port_rx)
  /\ UNCHANGED <<nsegs, reader_pc>>
  /\ UNCHANGED probeVars
  /\ UNCHANGED retryVars
  /\ UNCHANGED writerVars
  /\ UNCHANGED encVars
  /\ UNCHANGED callVars

\* a loop body that runs only while the Writer is running
ReadByte_StopsWithWriter ==
  /\ reader_pc = "running"
  /\ writer_pc \notin {"reported", "done"}
  /\ port_rx # <<>>
  /\ LET byte == Head(port_rx)
         f == Feed(current_packet, byte)
     IN  /\ current_packet' = f.cur
         /\ responses' = responses \o f.tx
         /\ control' = control \o f.ctl
         /\ history' = Append(history,
              [byte |-> byte,
               len_before |-> BufLen(current_packet),
               len_after |-> BufLen(f.cur),
               nresp |-> Len(responses) + Len(f.tx),
               nctl |-> Len(control) + Len(f.ctl)])
  /\ port_rx' = Tail(port_rx)
  /\ UNCHANGED <<nsegs, reader_pc>>
  /\ UNCHANGED probeVars
  /\ UNCHANGED retryVars
  /\ UNCHANGED writerVars
  /\ UNCHANGED encVars
  /\ UNCHANGED callVars

\* a loop pass that waits until the transport holds a whole frame
ReadByte_WaitsForFrame ==
  /\ reader_pc = "running"
  /\ Len(port_rx) >= FRAME_LEN
  /\ LET byte == Head(port_rx)
         f == Feed(current_packet, byte)
     IN  /\ current_packet' = f.cur
         /\ responses' = responses \o f.tx
         /\ control' = control \o f.ctl
         /\ history' = Append(history,
              [byte |-> byte,
               len_before |-> BufLen(current_packet),
               len_after |-> BufLen(f.cur),
               nresp |-> Len(responses) + Len(f.tx),
               nctl |-> Len(control) + Len(f.ctl)])
  /\ port_rx' = Tail(port_rx)
  /\ UNCHANGED <<nsegs, reader_pc>>
  /\ UNCHANGED probeVars
  /\ UNCHANGED retryVars
  /\ UNCHANGED writerVars
  /\ UNCHANGED encVars
  /\ UNCHANGED callVars

\* port.bytes() yields Ok(byte): one pass of the loop body
ReadByte ==
  /\ reader_pc = "running"
  /\ port_rx # <<>>
  /\ LET byte == Head(port_rx)
         f == Feed(current_packet, byte)
     IN  /\ current_packet' = f.cur
         /\ responses' = responses \o f.tx
         /\ control' = control \o f.ctl
         /\ history' = Append(history,
              [byte |-> byte,
               len_before |-> BufLen(current_packet),
               len_after |-> BufLen(f.cur),
               nresp |-> Len(responses) + Len(f.tx),
               nctl |-> Len(control) + Len(f.ctl)])
  /\ port_rx' = Tail(port_rx)
  /\ UNCHANGED <<nsegs, reader_pc>>
  /\ UNCHANGED probeVars
  /\ UNCHANGED retryVars
  /\ UNCHANGED writerVars
  /\ UNCHANGED encVars
  /\ UNCHANGED callVars

\* a read error that is reported without leaving the loop
ReadError_NoBreak ==
  /\ reader_pc = "running"
  /\ control' = Append(control, CtlFatalRead)
  /\ history' = Append(history,
       [byte |-> -1,
        len_before |-> BufLen(current_packet),
        len_after |-> BufLen(current_packet),
        nresp |-> Len(responses),
        nctl |-> Len(control) + 1])
  /\ UNCHANGED <<port_rx, nsegs, current_packet, responses, reader_pc>>
  /\ UNCHANGED probeVars
  /\ UNCHANGED retryVars
  /\ UNCHANGED writerVars
  /\ UNCHANGED encVars
  /\ UNCHANGED callVars

\* port.bytes() yields Err(e): FatalError is sent and the thread ends
ReadError ==
  /\ reader_pc = "running"
  /\ control' = Append(control, CtlFatalRead)
  /\ reader_pc' = "done"
  /\ history' = Append(history,
       [byte |-> -1,
        len_before |-> BufLen(current_packet),
        len_after |-> BufLen(current_packet),
        nresp |-> Len(responses),
        nctl |-> Len(control) + 1])
  /\ UNCHANGED <<port_rx, nsegs, current_packet, responses>>
  /\ UNCHANGED probeVars
  /\ UNCHANGED retryVars
  /\ UNCHANGED writerVars
  /\ UNCHANGED encVars
  /\ UNCHANGED callVars

\* port.bytes() yields None, read() having returned Ok(0): the loop ends
\* and the thread with it, nothing is sent
ReadEof ==
  /\ reader_pc = "running"
  /\ port_rx = <<>>
  /\ reader_pc' = "ended"
  /\ UNCHANGED <<port_rx, nsegs, current_packet, responses, control, history>>
  /\ UNCHANGED probeVars
  /\ UNCHANGED retryVars
  /\ UNCHANGED writerVars
  /\ UNCHANGED encVars
  /\ UNCHANGED callVars

ReaderInit ==
  /\ port_rx = <<>>
  /\ nsegs = 0
  /\ current_packet = None
  /\ responses = <<>>
  /\ control = <<>>
  /\ reader_pc = "running"
  /\ history = <<>>

ProbeIdle ==
  /\ probe_pc = "fresh"
  /\ packet = <<>>
  /\ result = [ok |-> FALSE, error |-> "none", reason |-> "none",
               packet |-> <<>>]
  /\ original = <<>>

Next == Arrive \/ ReadByte \/ ReadError \/ ReadEof

\* ------------------------------------------------------------------------
\* Reading the Reader's history
\* ------------------------------------------------------------------------

\* the bytes (or -1 for a read error) the Reader's loop has seen, in order
HBytes == [k \in 1..Len(history) |-> history[k].byte]

\* the ten bytes seen in steps i .. i+9
FrameAt(i) == SubSeq(HBytes, i, i + 9)

\* steps a .. b all read a byte
BytesIn(a, b) == \A k \in a..b : history[k].byte >= 0

\* number of messages on tx / control_tx once p steps are done
NRespAfter(p) == IF p = 0 THEN 0 ELSE history[p].nresp

NCtlAfter(p) == IF p = 0 THEN 0 ELSE history[p].nctl

\* accumulator length once p steps are done
LenAfter(p) == IF p = 0 THEN 0 ELSE history[p].len_after

\* steps i .. i+9 read a frame whose header byte was read while Idle
AlignedFrameAt(i) ==
  /\ i >= 1
  /\ Len(history) >= i + 9
  /\ BytesIn(i, i + 9)
  /\ history[i].len_before = 0
  /\ history[i].byte = HEAD

\* g garbage bytes (none is the header) and then a frame that decodes
GarbageThenValid(g) ==
  /\ Len(history) >= g + 10
  /\ \A k \in 1..g : history[k].byte >= 0 /\ history[k].byte # HEAD
  /\ history[g + 1].byte = HEAD
  /\ BytesIn(g + 1, g + 10)
  /\ parse_packet(FrameAt(g + 1)).ok

\* ------------------------------------------------------------------------
\* Claims about the Reader
\* ------------------------------------------------------------------------

\* C1 - Resynchronisation: when the stream starts with garbage bytes (bytes
\* other than the header) followed by 0xAA and nine bytes completing a frame
\* that decodes, nothing is sent on tx or control_tx until the frame's last
\* byte, and with that byte exactly one response - the decoded frame - is
\* sent on tx and nothing on control_tx.
C1_Resynchronisation ==
  \A g \in 0..Len(history) :
    GarbageThenValid(g) =>
      /\ \A k \in 1..(g + 9) : history[k].nresp = 0 /\ history[k].nctl = 0
      /\ history[g + 10].nresp = 1
      /\ history[g + 10].nctl = 0
      /\ responses[1] = parse_packet(FrameAt(g + 1)).resp

C1_Witness ==
  \E g \in 1..Len(history) :
    /\ GarbageThenValid(g)
    /\ Len(history) = g + 10
    /\ Len(responses) = 1
    /\ control = <<>>

\* C2 - Frame completion: a step that appends the tenth byte to the buffer
\* sends exactly one message - the response on tx when parse_packet
\* succeeds, otherwise a non-fatal Error on control_tx - and leaves the
\* accumulator Idle.
C2_FrameCompletion ==
  [][ ( /\ port_rx # <<>>
        /\ port_rx' = Tail(port_rx)
        /\ BufLen(current_packet) = FRAME_LEN - 1 )
      => LET pkt == Append(current_packet.buf, Head(port_rx))
             r == parse_packet(pkt)
         IN  /\ current_packet' = None
             /\ IF r.ok
                  THEN /\ responses' = Append(responses, r.resp)
                       /\ control' = control
                  ELSE /\ responses' = responses
                       /\ Len(control') = Len(control) + 1
                       /\ control'[Len(control')].level = "Error"
                       /\ control'[Len(control')].packet = pkt ]_vars

C2_Witness ==
  \E i, j \in 1..Len(history) :
    /\ history[i].len_before = FRAME_LEN - 1 /\ history[i].byte >= 0
    /\ history[i].nresp = NRespAfter(i - 1) + 1
    /\ history[i].len_after = 0
    /\ history[j].len_before = FRAME_LEN - 1 /\ history[j].byte >= 0
    /\ history[j].nctl = NCtlAfter(j - 1) + 1
    /\ history[j].len_after = 0

\* a frame whose header was read while Idle and which fails decoding yields
\* one Error (not FatalError) on control_tx and no response, and a frame
\* that decodes and follows immediately is sent on tx
MalformedReported ==
  \A i \in 1..Len(history) :
    (AlignedFrameAt(i) /\ ~parse_packet(FrameAt(i)).ok) =>
      /\ history[i + 9].nctl = NCtlAfter(i + 8) + 1
      /\ control[history[i + 9].nctl].level = "Error"
      /\ control[history[i + 9].nctl].packet = FrameAt(i)
      /\ history[i + 9].nresp = NRespAfter(i + 8)
      /\ (Len(history) = i + 9 => reader_pc # "done")
      /\ ( ( /\ Len(history) >= i + 19
             /\ BytesIn(i + 10, i + 19)
             /\ history[i + 10].byte = HEAD
             /\ parse_packet(FrameAt(i + 10)).ok )
           => /\ history[i + 19].nresp = NRespAfter(i + 18) + 1
              /\ responses[history[i + 19].nresp]
                   = parse_packet(FrameAt(i + 10)).resp
              /\ history[i + 19].nctl = NCtlAfter(i + 18) )

\* the step that reads the tenth byte of a frame that fails decoding leaves
\* the Reader in its loop
MalformedKeepsRunning ==
  ( /\ port_rx # <<>>
    /\ port_rx' = Tail(port_rx)
    /\ BufLen(current_packet) = FRAME_LEN - 1
    /\ ~parse_packet(Append(current_packet.buf, Head(port_rx))).ok )
  => reader_pc' = "running"

\* C3 - Malformed frames are non-fatal: a frame whose header was read while
\* Idle and which fails decoding yields one Error (not FatalError) on
\* control_tx and no response, the Reader is still running after it, and a
\* frame that decodes and follows immediately is sent on tx.
C3_MalformedNonFatal ==
  [](MalformedReported) /\ [][MalformedKeepsRunning]_vars

C3_Witness ==
  \E i \in 1..Len(history) :
    /\ AlignedFrameAt(i)
    /\ ~parse_packet(FrameAt(i)).ok
    /\ Len(history) = i + 19
    /\ BytesIn(i + 10, i + 19)
    /\ history[i + 10].byte = HEAD
    /\ parse_packet(FrameAt(i + 10)).ok
    /\ Len(responses) >= 1
    /\ reader_pc = "running"

\* C4 - Overflow handling, as claimed: when a header read while Idle is
\* followed by more than ten bytes before the header of a frame that decodes,
\* a non-fatal "too long" Error is sent on control_tx in between and that
\* frame is sent on tx.
C4_OverflowReported ==
  \A i, j \in 1..Len(history) :
    ( /\ AlignedFrameAt(i)
      /\ j >= i + 12
      /\ Len(history) >= j + 9
      /\ BytesIn(i, j + 9)
      /\ history[j].byte = HEAD
      /\ \A k \in (i + 1)..(j - 1) : history[k].byte # HEAD
      /\ parse_packet(FrameAt(j)).ok )
    => /\ \E k \in (NCtlAfter(i - 1) + 1)..NCtlAfter(j - 1) :
            control[k].level = "Error" /\ control[k].reason = "too long"
       /\ history[j + 9].nresp = NRespAfter(j + 8) + 1
       /\ responses[history[j + 9].nresp] = parse_packet(FrameAt(j)).resp

\* C5 - No wedge: the buffer of an Accumulating reader holds 1 to 9 bytes;
\* whatever the accumulator's state, it is Idle at some point within the
\* next nine bytes; and a header read while Idle starts a new one-byte
\* buffer.
C5_NoWedge ==
  /\ current_packet.some =>
       (Len(current_packet.buf) >= 1 /\ Len(current_packet.buf) < FRAME_LEN)
  /\ BufLen(current_packet) = LenAfter(Len(history))
  /\ \A p \in 0..Len(history) :
       (Len(history) >= p + 9 /\ BytesIn(p + 1, p + 9))
         => \E q \in p..(p + 9) : LenAfter(q) = 0
  /\ \A i \in 1..Len(history) :
       (history[i].len_before = 0 /\ history[i].byte = HEAD)
         => /\ history[i].len_after = 1
            /\ (i = Len(history) => current_packet = Some(<<HEAD>>))

C5_Witness ==
  \E i \in 1..Len(history) :
    /\ Len(history) = i + 1
    /\ history[i].len_before = FRAME_LEN - 1
    /\ history[i].byte >= 0
    /\ history[i].nctl = NCtlAfter(i - 1) + 1
    /\ history[i].len_after = 0
    /\ history[i + 1].byte = HEAD
    /\ current_packet = Some(<<HEAD>>)

\* ------------------------------------------------------------------------
\* The decoder on its own: parse_packet applied to one frame, and to the
\* same frame with one byte of the checksummed span changed
\* ------------------------------------------------------------------------

RECURSIVE ByteSum(_)
\* plain integer sum of a byte span
ByteSum(bytes) ==
  IF bytes = <<>> THEN 0 ELSE Head(bytes) + ByteSum(Tail(bytes))

\* a 10-byte frame with header, the given id, data and device bytes, a
\* checksum byte that is right (off = 0) or wrong (off = 1), and a tail
MkFrame(c, data, dev, off, tail) ==
  <<HEAD, c>> \o data \o dev \o <<(ByteSum(data \o dev) + off) % 256, tail>>

ProbeIds == {CMD_QUERY, CMD_REPLY, 180}

ProbeSubs == {0, 2, 3, 5, 6, 7, 8, 255}

ProbeModes == {0, 5}

ProbeDevices == {<<161, 96>>, <<255, 255>>}

ProbeFrames ==
  { MkFrame(c, <<x, 0, m, 0>>, dev, off, tail) :
      c \in ProbeIds, x \in ProbeSubs, m \in ProbeModes,
      dev \in ProbeDevices, off \in {0, 1}, tail \in {TAIL, 0} }

\* parse_packet has been applied to packet
Parsed == probe_pc # "fresh"

ProbeInit ==
  /\ probe_pc = "fresh"
  /\ packet \in ProbeFrames
  /\ result = [ok |-> FALSE, error |-> "none", reason |-> "none",
               packet |-> <<>>]
  /\ original = <<>>

\* parse_packet(packet)
ProbeParse ==
  /\ probe_pc = "fresh"
  /\ probe_pc' = "parsed"
  /\ result' = parse_packet(packet)
  /\ UNCHANGED <<packet, original>>
  /\ UNCHANGED readerVars
  /\ UNCHANGED retryVars
  /\ UNCHANGED writerVars
  /\ UNCHANGED encVars
  /\ UNCHANGED callVars

\* one byte at an offset in 2..=7 of an accepted frame is changed to a
\* different value and the frame is parsed again
ProbeCorrupt ==
  /\ probe_pc = "parsed"
  /\ result.ok
  /\ probe_pc' = "corrupted"
  /\ \E o \in 2..7, v \in Byte :
       /\ v # At(packet, o)
       /\ packet' = [packet EXCEPT ![o + 1] = v]
       /\ result' = parse_packet(packet')
  /\ original' = packet
  /\ UNCHANGED readerVars
  /\ UNCHANGED retryVars
  /\ UNCHANGED writerVars
  /\ UNCHANGED encVars
  /\ UNCHANGED callVars

\* byte 9 of a parsed frame is changed to a different value and the frame
\* is parsed again
ProbeRetail ==
  /\ probe_pc = "parsed"
  /\ probe_pc' = "retailed"
  /\ \E v \in Byte :
       /\ v # At(packet, 9)
       /\ packet' = [packet EXCEPT ![10] = v]
       /\ result' = parse_packet(packet')
  /\ original' = packet
  /\ UNCHANGED readerVars
  /\ UNCHANGED retryVars
  /\ UNCHANGED writerVars
  /\ UNCHANGED encVars
  /\ UNCHANGED callVars

NextTail == ProbeParse \/ ProbeRetail

\* the probe frames, each also cut to nine bytes and extended to eleven
LengthFrames ==
  ProbeFrames
    \cup { SubSeq(f, 1, 9) : f \in ProbeFrames }
    \cup { f \o <<TAIL>> : f \in ProbeFrames }

LengthInit ==
  /\ probe_pc = "fresh"
  /\ packet \in LengthFrames
  /\ result = [ok |-> FALSE, error |-> "none", reason |-> "none",
               packet |-> <<>>]
  /\ original = <<>>

NextLength == ProbeParse

NextParse == ProbeParse \/ ProbeCorrupt

\* (sum of bytes[2..=7]) mod 256 == bytes[8]
DataSumMatches(pkt) == ByteSum(Slice(pkt, 2, 7)) % 256 = At(pkt, 8)

\* C6 - Checksum validation: every frame parse_packet accepts has
\* (sum of bytes[2..=7]) mod 256 equal to bytes[8], and an accepted frame
\* with one byte at an offset in 2..=7 changed to another value is rejected
\* with the invalid-checksum PacketError.
C6_ChecksumValidation ==
  /\ (Parsed /\ result.ok) => DataSumMatches(packet)
  /\ probe_pc = "corrupted" =>
       /\ ~result.ok
       /\ result.error = "PacketError"
       /\ result.reason = "invalid checksum"

C6_Witness ==
  /\ probe_pc = "corrupted"
  /\ DataSumMatches(original)
  /\ At(packet, 7) # At(original, 7)
  /\ result.reason = "invalid checksum"

\* C7 - Response dispatch: a checksum-valid 10-byte frame decodes to Query
\* when byte[1] = 0xC0, to SetReportingMode, SetDeviceId, SetSleepWork,
\* GetFirmwareVersion, SetWorkingPeriod when byte[1] = 0xC5 and byte[2] is
\* 0x02, 0x05, 0x06, 0x07, 0x08, and every other pair gives the
\* unknown-command PacketError and no response.
C7_ResponseDispatch ==
  (Parsed /\ Len(packet) = FRAME_LEN /\ DataSumMatches(packet)) =>
    LET c == At(packet, 1)
        x == At(packet, 2)
        kind == IF c = 192 THEN "Query"
                ELSE IF c = 197 /\ x = 2 THEN "SetReportingMode"
                ELSE IF c = 197 /\ x = 5 THEN "SetDeviceId"
                ELSE IF c = 197 /\ x = 6 THEN "SetSleepWork"
                ELSE IF c = 197 /\ x = 7 THEN "GetFirmwareVersion"
                ELSE IF c = 197 /\ x = 8 THEN "SetWorkingPeriod"
                ELSE "none"
    IN  IF kind = "none"
          THEN /\ ~result.ok
               /\ result.error = "PacketError"
               /\ result.reason = "invalid command"
          ELSE result.ok /\ result.resp.kind = kind

C7_Witness ==
  /\ Parsed
  /\ DataSumMatches(packet)
  /\ At(packet, 1) = 197
  /\ At(packet, 2) = 7
  /\ result.ok
  /\ result.resp.kind = "GetFirmwareVersion"

\* ------------------------------------------------------------------------
\* Retry / correlation layer: send_and_wait (retry_send_default for the
\* default RetryConfig), as the design describes it
\* ------------------------------------------------------------------------

\* RetryConfig::default() : 5 attempts, 500 ms timeout, 100 ms poll interval
DefaultRetries == 5

DefaultTimeout == 500

DefaultPollInterval == 100

Configs ==
  { [retries |-> r, timeout |-> DefaultTimeout,
     poll_interval |-> DefaultPollInterval] : r \in 1..MaxRetries }

\* the commands the exporter sends through the layer
RetryCommands ==
  { [kind |-> "SetWorkingPeriod", query |-> FALSE,
     working_period |-> [tag |-> "Periodic", n |-> 1]],
    [kind |-> "SetReportingMode", query |-> FALSE, mode |-> "Active"] }

\* AA C5 02 01 00 00 A1 60 04 AB : reporting mode reply
FrameReporting == <<170, 197, 2, 1, 0, 0, 161, 96, 4, 171>>

\* frames whose responses the Reader publishes while a call is in progress
DeliverFrames == {FrameQuery, FramePeriod, FrameReporting}

NoOutcome == [ok |-> FALSE, error |-> "none"]

RetriesExceeded(cmd) ==
  [ok |-> FALSE, error |-> "RetriesExceeded", command |-> cmd]

RetryIdle ==
  /\ sw_pc = "idle"
  /\ config = [retries |-> DefaultRetries, timeout |-> DefaultTimeout,
               poll_interval |-> DefaultPollInterval]
  /\ sw_command = [kind |-> "Query"]
  /\ attempt = 0
  /\ elapsed = 0
  /\ unrelated = <<>>
  /\ outcome = NoOutcome
  /\ command_queue = <<>>
  /\ ndelivered = 0
  /\ received = <<>>

RetryInit ==
  /\ sw_pc = "idle"
  /\ config \in Configs
  /\ sw_command \in RetryCommands
  /\ attempt = 0
  /\ elapsed = 0
  /\ unrelated = <<>>
  /\ outcome = NoOutcome
  /\ command_queue = <<>>
  /\ ndelivered = 0
  /\ received = <<>>

\* polls an attempt makes before its timeout, in the calls made under a
\* flow of responses: a timeout of two poll intervals
FlowPolls == 2

\* configurations whose attempts time out after a few polls
FlowConfigs ==
  { [retries |-> r, timeout |-> FlowPolls * DefaultPollInterval,
     poll_interval |-> DefaultPollInterval] : r \in 1..MaxFlowRetries }

RetryFlowInit ==
  /\ sw_pc = "idle"
  /\ config \in FlowConfigs
  /\ sw_command \in RetryCommands
  /\ attempt = 0
  /\ elapsed = 0
  /\ unrelated = <<>>
  /\ outcome = NoOutcome
  /\ command_queue = <<>>
  /\ ndelivered = 0
  /\ received = <<>>

\* the Reader publishes one more decoded response on the response stream
Deliver ==
  /\ sw_pc # "returned"
  /\ \E f \in DeliverFrames :
       responses' = Append(responses, parse_packet(f).resp)
  /\ ndelivered' = ndelivered + 1
  /\ UNCHANGED <<sw_pc, config, sw_command, attempt, elapsed, unrelated,
                 outcome, command_queue, received>>
  /\ UNCHANGED <<port_rx, nsegs, current_packet, control, reader_pc,
                 history>>
  /\ UNCHANGED probeVars
  /\ UNCHANGED writerVars
  /\ UNCHANGED encVars
  /\ UNCHANGED callVars

\* send_and_wait is called: the accumulator starts empty
SendAndWait_Call ==
  /\ sw_pc = "idle"
  /\ sw_pc' = "send"
  /\ attempt' = 1
  /\ unrelated' = <<>>
  /\ UNCHANGED <<config, sw_command, elapsed, outcome, command_queue,
                 ndelivered, received>>
  /\ UNCHANGED readerVars
  /\ UNCHANGED probeVars
  /\ UNCHANGED writerVars
  /\ UNCHANGED encVars
  /\ UNCHANGED callVars

\* write_thread still holds the Receiver of the command queue
ReceiverAlive == writer_pc \notin {"done", "exited"}

\* an attempt begins while write_thread holds the receiver: the encoded
\* command is put on the command queue
SendAndWait_Send ==
  /\ sw_pc = "send"
  /\ ReceiverAlive
  /\ command_queue' = Append(command_queue, to_cmd(sw_command))
  /\ elapsed' = 0
  /\ sw_pc' = "poll"
  /\ UNCHANGED <<config, sw_command, attempt, unrelated, outcome, ndelivered,
                 received>>
  /\ UNCHANGED readerVars
  /\ UNCHANGED probeVars
  /\ UNCHANGED writerVars
  /\ UNCHANGED encVars
  /\ UNCHANGED callVars

\* a poll that takes no time when it finds a response of another kind
SendAndWait_Recv_NoClock ==
  /\ sw_pc = "poll"
  /\ responses # <<>>
  /\ LET response == Head(responses)
         r == try_into_response(response, ResponseType(sw_command))
     IN  /\ received' = Append(received,
                               [resp |-> response, attempt |-> attempt])
         /\ IF r.ok
              THEN /\ outcome' = [ok |-> TRUE, resp |-> r.resp,
                                  unrelated |-> unrelated]
                   /\ sw_pc' = "returned"
                   /\ UNCHANGED <<unrelated, attempt, elapsed>>
              ELSE /\ unrelated' = Append(unrelated, r.resp)
                   /\ UNCHANGED <<outcome, sw_pc, attempt, elapsed>>
  /\ responses' = Tail(responses)
  /\ UNCHANGED <<config, sw_command, command_queue, ndelivered>>
  /\ UNCHANGED <<port_rx, nsegs, current_packet, control, reader_pc,
                 history>>
  /\ UNCHANGED probeVars
  /\ UNCHANGED writerVars
  /\ UNCHANGED encVars
  /\ UNCHANGED callVars

\* a poll finds a response: a match is returned at once with the
\* accumulator; anything else is appended to the accumulator and polling
\* continues, the next poll one poll interval later, unless the attempt's
\* timeout has then elapsed: then the next attempt begins or the call fails
SendAndWait_Recv ==
  /\ sw_pc = "poll"
  /\ responses # <<>>
  /\ LET response == Head(responses)
         r == try_into_response(response, ResponseType(sw_command))
         e == elapsed + config.poll_interval
     IN  /\ received' = Append(received,
                               [resp |-> response, attempt |-> attempt])
         /\ IF r.ok
              THEN /\ outcome' = [ok |-> TRUE, resp |-> r.resp,
                                  unrelated |-> unrelated]
                   /\ sw_pc' = "returned"
                   /\ UNCHANGED <<unrelated, attempt, elapsed>>
              ELSE /\ unrelated' = Append(unrelated, r.resp)
                   /\ elapsed' = e
                   /\ IF e < config.timeout
                        THEN UNCHANGED <<sw_pc, attempt, outcome>>
                        ELSE IF attempt < config.retries
                          THEN /\ attempt' = attempt + 1
                               /\ sw_pc' = "send"
                               /\ UNCHANGED outcome
                          ELSE /\ outcome' = RetriesExceeded(sw_command)
                               /\ sw_pc' = "returned"
                               /\ UNCHANGED attempt
  /\ responses' = Tail(responses)
  /\ UNCHANGED <<config, sw_command, command_queue, ndelivered>>
  /\ UNCHANGED <<port_rx, nsegs, current_packet, control, reader_pc,
                 history>>
  /\ UNCHANGED probeVars
  /\ UNCHANGED writerVars
  /\ UNCHANGED encVars
  /\ UNCHANGED callVars

\* a sleep that never looks at the timeout
SendAndWait_Sleep_NoDeadline ==
  /\ sw_pc = "poll"
  /\ responses = <<>>
  /\ elapsed' = (elapsed + config.poll_interval) % config.timeout
  /\ UNCHANGED <<sw_pc, attempt, outcome>>
  /\ UNCHANGED <<config, sw_command, unrelated, command_queue, ndelivered,
                 received>>
  /\ UNCHANGED readerVars
  /\ UNCHANGED probeVars
  /\ UNCHANGED writerVars
  /\ UNCHANGED encVars
  /\ UNCHANGED callVars

\* a poll finds the stream empty: sleep one poll interval; when the
\* attempt's timeout has then elapsed, go to the next attempt or fail
SendAndWait_Sleep ==
  /\ sw_pc = "poll"
  /\ responses = <<>>
  /\ LET e == elapsed + config.poll_interval
     IN  IF e < config.timeout
           THEN /\ elapsed' = e
                /\ UNCHANGED <<sw_pc, attempt, outcome>>
           ELSE IF attempt < config.retries
             THEN /\ attempt' = attempt + 1
                  /\ sw_pc' = "send"
                  /\ elapsed' = e
                  /\ UNCHANGED outcome
             ELSE /\ outcome' = RetriesExceeded(sw_command)
                  /\ sw_pc' = "returned"
                  /\ elapsed' = e
                  /\ UNCHANGED attempt
  /\ UNCHANGED <<config, sw_command, unrelated, command_queue, ndelivered,
                 received>>
  /\ UNCHANGED readerVars
  /\ UNCHANGED probeVars
  /\ UNCHANGED writerVars
  /\ UNCHANGED encVars
  /\ UNCHANGED callVars

\* the Reader publishes a response, one of a few
DeliverSome == ndelivered < MaxDeliver /\ Deliver

\* the polls of the longest call made under a flow of responses, and one
FlowLen == MaxFlowRetries * FlowPolls + 1

\* the Reader publishes a response, at any time and on top of any number of
\* unread ones, often enough for every poll of a call to find one
DeliverFlow == ndelivered < FlowLen /\ Deliver

\* a call of send_and_wait while the Reader publishes a few responses
NextRetry ==
  \/ DeliverSome
  \/ SendAndWait_Call
  \/ SendAndWait_Send
  \/ SendAndWait_Recv
  \/ SendAndWait_Sleep

\* a call of send_and_wait while the Reader keeps publishing responses
NextRetryFlow ==
  \/ DeliverFlow
  \/ SendAndWait_Call
  \/ SendAndWait_Send
  \/ SendAndWait_Recv
  \/ SendAndWait_Sleep

\* ------------------------------------------------------------------------
\* lib.rs : write_thread, the command queue and the clients that fill it
\* ------------------------------------------------------------------------

\* number of sends the clients attempt on the command queue
MaxCmds == 3

\* number of segments the transport delivers while the Writer is observed
MaxIOSegs == 1

\* ControlMessage::FatalError(Error::WriteError(e))
CtlFatalWrite == [level |-> "FatalError", error |-> "WriteError"]

\* commands a client sends on command_tx
ClientCommands ==
  { [kind |-> "GetFirmwareVersion"],
    [kind |-> "SetReportingMode", query |-> TRUE, mode |-> "Active"] }

\* number of bytes the transport takes in a write() that does not take
\* all it is given
ChunkLens == {7}

\* segments the transport delivers while the Writer is observed
IOSegments == {FrameQuery, FrameBadChecksum, <<0>>}

\* write_thread is not inside write_all
NoCmd == [data |-> <<>>]

WriterIdle ==
  /\ writer_pc = "running"
  /\ port_tx = <<>>
  /\ enqueued = <<>>
  /\ send_failed = 0
  /\ senders_alive = TRUE
  /\ write_cmd = NoCmd
  /\ write_taken = 0
  /\ wlog = <<>>

\* the runs of bytes on the wire, one per call of write_all, once the
\* transport has taken more bytes of the call that had taken `taken`
Wire(runs, taken, bytes) ==
  IF taken = 0 THEN Append(runs, bytes)
  ELSE [runs EXCEPT ![Len(runs)] = @ \o bytes]

\* command_tx.send(cmd.to_cmd()) while write_thread holds the receiver
Enqueue ==
  /\ senders_alive
  /\ ReceiverAlive
  /\ Len(enqueued) + send_failed < MaxCmds
  /\ \E c \in ClientCommands :
       /\ command_queue' = Append(command_queue, to_cmd(c))
       /\ enqueued' = Append(enqueued, to_cmd(c))
  /\ UNCHANGED <<writer_pc, port_tx, send_failed, senders_alive, write_cmd,
                 write_taken, wlog>>
  /\ UNCHANGED <<sw_pc, config, sw_command, attempt, elapsed, unrelated,
                 outcome, ndelivered, received>>
  /\ UNCHANGED readerVars
  /\ UNCHANGED probeVars
  /\ UNCHANGED encVars
  /\ UNCHANGED callVars

\* command_tx.send(..) after write_thread has dropped the receiver: Err
EnqueueClosed ==
  /\ senders_alive
  /\ writer_pc = "done"
  /\ Len(enqueued) + send_failed < MaxCmds
  /\ send_failed' = send_failed + 1
  /\ UNCHANGED <<writer_pc, port_tx, enqueued, senders_alive, write_cmd,
                 write_taken, wlog>>
  /\ UNCHANGED readerVars
  /\ UNCHANGED probeVars
  /\ UNCHANGED retryVars
  /\ UNCHANGED encVars
  /\ UNCHANGED callVars

\* a loop that takes the newest command of the queue
TakeCommand_NewestFirst ==
  /\ writer_pc = "running"
  /\ command_queue # <<>>
  /\ write_cmd' = command_queue[Len(command_queue)]
  /\ write_taken' = 0
  /\ command_queue' = SubSeq(command_queue, 1, Len(command_queue) - 1)
  /\ writer_pc' = "writing"
  /\ UNCHANGED <<port_tx, enqueued, send_failed, senders_alive, wlog>>
  /\ UNCHANGED <<sw_pc, config, sw_command, attempt, elapsed, unrelated,
                 outcome, ndelivered, received>>
  /\ UNCHANGED readerVars
  /\ UNCHANGED probeVars
  /\ UNCHANGED encVars
  /\ UNCHANGED callVars

\* a loop that waits until a second command is queued
TakeCommand_WaitsForTwo ==
  /\ writer_pc = "running"
  /\ Len(command_queue) >= 2
  /\ write_cmd' = Head(command_queue)
  /\ write_taken' = 0
  /\ command_queue' = Tail(command_queue)
  /\ writer_pc' = "writing"
  /\ UNCHANGED <<port_tx, enqueued, send_failed, senders_alive, wlog>>
  /\ UNCHANGED <<sw_pc, config, sw_command, attempt, elapsed, unrelated,
                 outcome, ndelivered, received>>
  /\ UNCHANGED readerVars
  /\ UNCHANGED probeVars
  /\ UNCHANGED encVars
  /\ UNCHANGED callVars

\* `for cmd in rx` yields the oldest command; cmd.write(&mut buf) encodes it
\* and write_all is entered
TakeCommand ==
  /\ writer_pc = "running"
  /\ command_queue # <<>>
  /\ write_cmd' = Head(command_queue)
  /\ write_taken' = 0
  /\ command_queue' = Tail(command_queue)
  /\ writer_pc' = "writing"
  /\ UNCHANGED <<port_tx, enqueued, send_failed, senders_alive, wlog>>
  /\ UNCHANGED <<sw_pc, config, sw_command, attempt, elapsed, unrelated,
                 outcome, ndelivered, received>>
  /\ UNCHANGED readerVars
  /\ UNCHANGED probeVars
  /\ UNCHANGED encVars
  /\ UNCHANGED callVars

\* inside write_all: write() takes some of the remaining bytes, not all
WritePart ==
  /\ writer_pc = "writing"
  /\ \E n \in ChunkLens :
       /\ write_taken + n < Len(write_cmd.data)
       /\ port_tx' = Wire(port_tx, write_taken,
                          SubSeq(write_cmd.data, write_taken + 1,
                                 write_taken + n))
       /\ write_taken' = write_taken + n
  /\ UNCHANGED <<writer_pc, enqueued, send_failed, senders_alive, write_cmd,
                 wlog>>
  /\ UNCHANGED retryVars
  /\ UNCHANGED readerVars
  /\ UNCHANGED probeVars
  /\ UNCHANGED encVars
  /\ UNCHANGED callVars

\* a write_all that encodes into the buffer the Reader accumulates in
WriteOk_SharedBuffer ==
  /\ writer_pc = "writing"
  /\ port_tx' = Wire(port_tx, write_taken,
                     SubSeq(write_cmd.data, write_taken + 1,
                            Len(write_cmd.data)))
  /\ wlog' = Append(wlog, [cmd |-> write_cmd, ok |-> TRUE,
                           taken |-> Len(write_cmd.data),
                           nctl |-> Len(control)])
  /\ write_cmd' = NoCmd
  /\ write_taken' = 0
  /\ writer_pc' = "running"
  /\ UNCHANGED <<enqueued, send_failed, senders_alive>>
  /\ UNCHANGED retryVars
  /\ current_packet' = None
  /\ UNCHANGED <<port_rx, nsegs, responses, control, reader_pc, history>>
  /\ UNCHANGED probeVars
  /\ UNCHANGED encVars
  /\ UNCHANGED callVars

\* inside write_all: write() takes the rest of the bytes, write_all returns
\* Ok and the loop goes back to the queue
WriteOk ==
  /\ writer_pc = "writing"
  /\ port_tx' = Wire(port_tx, write_taken,
                     SubSeq(write_cmd.data, write_taken + 1,
                            Len(write_cmd.data)))
  /\ wlog' = Append(wlog, [cmd |-> write_cmd, ok |-> TRUE,
                           taken |-> Len(write_cmd.data),
                           nctl |-> Len(control)])
  /\ write_cmd' = NoCmd
  /\ write_taken' = 0
  /\ writer_pc' = "running"
  /\ UNCHANGED <<enqueued, send_failed, senders_alive>>
  /\ UNCHANGED retryVars
  /\ UNCHANGED readerVars
  /\ UNCHANGED probeVars
  /\ UNCHANGED encVars
  /\ UNCHANGED callVars

\* a failed write that is reported while the loop goes on to the next
\* command
WriteFail_NoBreak ==
  /\ writer_pc = "writing"
  /\ control' = Append(control, CtlFatalWrite)
  /\ wlog' = Append(wlog, [cmd |-> write_cmd, ok |-> FALSE,
                           taken |-> write_taken,
                           nctl |-> Len(control) + 1])
  /\ write_cmd' = NoCmd
  /\ write_taken' = 0
  /\ writer_pc' = "running"
  /\ UNCHANGED <<port_tx, enqueued, send_failed, senders_alive>>
  /\ UNCHANGED retryVars
  /\ UNCHANGED <<port_rx, nsegs, current_packet, responses, reader_pc,
                 history>>
  /\ UNCHANGED probeVars
  /\ UNCHANGED encVars
  /\ UNCHANGED callVars

\* inside write_all: write() returns Err(e), or Ok(0); write_all returns the
\* error and FatalError(WriteError) is sent on the control channel
WriteFail ==
  /\ writer_pc = "writing"
  /\ control' = Append(control, CtlFatalWrite)
  /\ wlog' = Append(wlog, [cmd |-> write_cmd, ok |-> FALSE,
                           taken |-> write_taken,
                           nctl |-> Len(control) + 1])
  /\ write_cmd' = NoCmd
  /\ write_taken' = 0
  /\ writer_pc' = "reported"
  /\ UNCHANGED <<port_tx, enqueued, send_failed, senders_alive>>
  /\ UNCHANGED retryVars
  /\ UNCHANGED <<port_rx, nsegs, current_packet, responses, reader_pc,
                 history>>
  /\ UNCHANGED probeVars
  /\ UNCHANGED encVars
  /\ UNCHANGED callVars

\* `break`: write_thread ends and the Receiver of the queue is dropped
WriterDrop ==
  /\ writer_pc = "reported"
  /\ writer_pc' = "done"
  /\ UNCHANGED <<port_tx, enqueued, send_failed, senders_alive, write_cmd,
                 write_taken, wlog>>
  /\ UNCHANGED readerVars
  /\ UNCHANGED probeVars
  /\ UNCHANGED retryVars
  /\ UNCHANGED encVars
  /\ UNCHANGED callVars

\* the serial line delivers the next run of bytes
ArriveIO ==
  /\ reader_pc = "running"
  /\ port_rx = <<>>
  /\ nsegs < MaxIOSegs
  /\ \E seg \in IOSegments : port_rx' = seg
  /\ nsegs' = nsegs + 1
  /\ UNCHANGED <<current_packet, responses, control, reader_pc, history>>
  /\ UNCHANGED probeVars
  /\ UNCHANGED retryVars
  /\ UNCHANGED writerVars
  /\ UNCHANGED encVars
  /\ UNCHANGED callVars

\* the last Sender of the command queue is dropped
DropSenders ==
  /\ senders_alive
  /\ senders_alive' = FALSE
  /\ UNCHANGED <<writer_pc, port_tx, enqueued, send_failed, write_cmd,
                 write_taken, wlog>>
  /\ UNCHANGED readerVars
  /\ UNCHANGED probeVars
  /\ UNCHANGED retryVars
  /\ UNCHANGED encVars
  /\ UNCHANGED callVars

\* a write_thread that leaves its loop as soon as every Sender is dropped
WriterExit_DropsQueued ==
  /\ writer_pc = "running"
  /\ ~senders_alive
  /\ writer_pc' = "exited"
  /\ UNCHANGED <<port_tx, enqueued, send_failed, senders_alive, write_cmd,
                 write_taken, wlog>>
  /\ UNCHANGED readerVars
  /\ UNCHANGED probeVars
  /\ UNCHANGED retryVars
  /\ UNCHANGED encVars
  /\ UNCHANGED callVars

\* `for cmd in rx` ends: the queue is empty and every Sender is dropped
WriterExit ==
  /\ writer_pc = "running"
  /\ ~senders_alive
  /\ command_queue = <<>>
  /\ writer_pc' = "exited"
  /\ UNCHANGED <<port_tx, enqueued, send_failed, senders_alive, write_cmd,
                 write_taken, wlog>>
  /\ UNCHANGED readerVars
  /\ UNCHANGED probeVars
  /\ UNCHANGED retryVars
  /\ UNCHANGED encVars
  /\ UNCHANGED callVars

\* write_thread alone with the clients of its queue
NextWriter ==
  \/ Enqueue
  \/ EnqueueClosed
  \/ TakeCommand
  \/ WritePart
  \/ WriteOk
  \/ WriteFail
  \/ WriterDrop
  \/ DropSenders
  \/ WriterExit

\* the transport holds one frame for the Reader when the threads start
ReaderLoaded ==
  /\ port_rx = FrameQuery
  /\ nsegs = 1
  /\ current_packet = None
  /\ responses = <<>>
  /\ control = <<>>
  /\ reader_pc = "running"
  /\ history = <<>>

\* read_thread and write_thread while the clients come and go
NextShutdown ==
  \/ ReadByte
  \/ ReadError
  \/ ReadEof
  \/ Enqueue
  \/ EnqueueClosed
  \/ TakeCommand
  \/ WritePart
  \/ WriteOk
  \/ WriteFail
  \/ WriterDrop
  \/ DropSenders
  \/ WriterExit

\* read_thread and write_thread side by side, as open_sensor spawns them
NextIO ==
  \/ ArriveIO
  \/ ReadByte
  \/ ReadError
  \/ ReadEof
  \/ Enqueue
  \/ EnqueueClosed
  \/ TakeCommand
  \/ WritePart
  \/ WriteOk
  \/ WriteFail
  \/ WriterDrop

EncIdle ==
  /\ enc_pc = "fresh"
  /\ enc_command = [kind |-> "Query"]
  /\ enc_bytes = <<>>

\* ------------------------------------------------------------------------
\* The encoder applied to one command
\* ------------------------------------------------------------------------

\* values of SetDeviceId::id (u16)
DeviceIds == {0, 1, 255, 256, 41312, 65535}

\* every WorkingPeriod value: Continuous and Periodic(u8)
WorkingPeriods ==
  {[tag |-> "Continuous"]} \cup {[tag |-> "Periodic", n |-> n] : n \in Byte}

\* the commands handed to the encoder
EncCommands ==
  { [kind |-> "SetReportingMode", query |-> q, mode |-> m] :
      q \in BOOLEAN, m \in {"Active", "Query"} }
  \cup { [kind |-> "Query"], [kind |-> "GetFirmwareVersion"] }
  \cup { [kind |-> "SetDeviceId", id |-> i] : i \in DeviceIds }
  \cup { [kind |-> "SetSleepWork", query |-> q, mode |-> m] :
           q \in BOOLEAN, m \in {"Sleep", "Work"} }
  \cup { [kind |-> "SetWorkingPeriod", query |-> q, working_period |-> wp] :
           q \in BOOLEAN, wp \in WorkingPeriods }

EncInit ==
  /\ enc_pc = "fresh"
  /\ enc_command \in EncCommands
  /\ enc_bytes = <<>>

\* cmd.write(&mut buf) on an empty buffer
Encode ==
  /\ enc_pc = "fresh"
  /\ enc_bytes' = Command_write(enc_command)
  /\ enc_pc' = "written"
  /\ UNCHANGED enc_command
  /\ UNCHANGED readerVars
  /\ UNCHANGED probeVars
  /\ UNCHANGED retryVars
  /\ UNCHANGED writerVars
  /\ UNCHANGED callVars

\* the same command written again to a second empty buffer
Reencode ==
  /\ enc_pc = "written"
  /\ enc_bytes' = Command_write(enc_command)
  /\ enc_pc' = "rewritten"
  /\ UNCHANGED enc_command
  /\ UNCHANGED readerVars
  /\ UNCHANGED probeVars
  /\ UNCHANGED retryVars
  /\ UNCHANGED writerVars
  /\ UNCHANGED callVars

NextEncode == Encode \/ Reencode

\* ------------------------------------------------------------------------
\* The decoder applied to checksum-valid reading and working-period frames
\* ------------------------------------------------------------------------

\* values of the data bytes of a reading
DecodeBytes == {0, 1, 52, 80, 255}

DecodeDevices == {<<161, 96>>, <<1, 2>>, <<255, 255>>}

\* AA C0 <pm25 lo> <pm25 hi> <pm10 lo> <pm10 hi> <dev> <sum> AB
ReadingFrames ==
  { MkFrame(CMD_QUERY, <<a, b, c, d>>, dev, 0, TAIL) :
      a \in DecodeBytes, b \in DecodeBytes, c \in DecodeBytes,
      d \in DecodeBytes, dev \in DecodeDevices }

\* AA C5 08 <flag> <period> <reserved> <dev> <sum> <tail>
PeriodFrames ==
  { MkFrame(CMD_REPLY, <<8, q, p, r>>, dev, 0, tail) :
      q \in {0, 1, 255}, p \in Byte, r \in {0, 9}, dev \in DecodeDevices,
      tail \in {TAIL, 0} }

DecodeFrames == ReadingFrames \cup PeriodFrames

DecodeInit ==
  /\ probe_pc = "fresh"
  /\ packet \in DecodeFrames
  /\ result = [ok |-> FALSE, error |-> "none", reason |-> "none",
               packet |-> <<>>]
  /\ original = <<>>

NextDecode == ProbeParse

\* ------------------------------------------------------------------------
\* util.rs : WorkingPeriod from an integer and from text
\* A text is a sequence of one-character strings.
\* ------------------------------------------------------------------------

\* length of the texts handed to from_str
MaxTextLen == 2

CallIdle ==
  /\ call_pc = "fresh"
  /\ arg = [fn |-> "none"]
  /\ ret = [ok |-> FALSE, error |-> "none"]

OkVal(v) == [ok |-> TRUE, value |-> v]

\* Error::InvalidWorkingPeriod { period, reason }
InvalidWorkingPeriod(period, reason) ==
  [ok |-> FALSE, error |-> "InvalidWorkingPeriod", period |-> period,
   reason |-> reason]

DigitChars == <<"0", "1", "2", "3", "4", "5", "6", "7", "8", "9">>

IsDigit(c) == \E d \in 1..10 : DigitChars[d] = c

DigitVal(c) == (CHOOSE d \in 1..10 : DigitChars[d] = c) - 1

RECURSIVE DecimalValue(_)
\* value of a run of decimal digits
DecimalValue(ds) ==
  IF ds = <<>> THEN 0
  ELSE 10 * DecimalValue(SubSeq(ds, 1, Len(ds) - 1)) + DigitVal(ds[Len(ds)])

RECURSIVE to_string(_)
\* value.to_string()
to_string(value) ==
  IF value < 10 THEN <<DigitChars[value + 1]>>
  ELSE Append(to_string(value \div 10), DigitChars[(value % 10) + 1])

\* s.parse::<usize>() : an optional '+', then one or more decimal digits
\* (the texts of this model are too short to overflow a usize)
usize_parse(s) ==
  IF s = <<>>
    THEN [ok |-> FALSE, msg |-> "cannot parse integer from empty string"]
  ELSE IF s = <<"+">> \/ s = <<"-">>
    THEN [ok |-> FALSE, msg |-> "invalid digit found in string"]
  ELSE LET digits == IF s[1] = "+" THEN Tail(s) ELSE s
       IN  IF \A k \in 1..Len(digits) : IsDigit(digits[k])
             THEN OkVal(DecimalValue(digits))
             ELSE [ok |-> FALSE, msg |-> "invalid digit found in string"]

\* a try_from whose last arm lets the value through, truncated to a byte
WorkingPeriod_try_from_NoRange(value) ==
  IF value = 0 THEN OkVal([tag |-> "Continuous"])
  ELSE OkVal([tag |-> "Periodic", n |-> value % 256])

\* <WorkingPeriod as TryFrom<usize>>::try_from
WorkingPeriod_try_from(value) ==
  IF value = 0 THEN OkVal([tag |-> "Continuous"])
  ELSE IF value \in 1..30
    THEN OkVal([tag |-> "Periodic", n |-> value % 256])
  ELSE InvalidWorkingPeriod(to_string(value),
                            "value out of range (0 <= n <= 30)")

\* <WorkingPeriod as FromStr>::from_str
WorkingPeriod_from_str(s) ==
  LET value == usize_parse(s)
  IN  IF value.ok THEN WorkingPeriod_try_from(value.value)
      ELSE InvalidWorkingPeriod(s, "could not parse int: " \o value.msg)

\* integers handed to try_from
IntInputs == (0..40) \cup {255, 256, 286, 65535, 65566, 2147483647}

TextChars == {"0", "1", "3", "9", "-", "+", "a", " "}

RECURSIVE TextsOfLen(_)
TextsOfLen(n) ==
  IF n = 0 THEN {<<>>}
  ELSE {Append(t, c) : t \in TextsOfLen(n - 1), c \in TextChars}

\* texts handed to from_str
TextInputs ==
  UNION {TextsOfLen(n) : n \in 0..MaxTextLen}
    \cup {<<"0", "3", "0">>, <<"+", "3", "0">>, <<"2", "8", "6">>}

CallArgs ==
  {[fn |-> "try_from", value |-> v] : v \in IntInputs}
    \cup {[fn |-> "from_str", text |-> t] : t \in TextInputs}
    \cup {[fn |-> "from_byte", byte |-> b] : b \in Byte}

PeriodInit ==
  /\ call_pc = "fresh"
  /\ arg \in CallArgs
  /\ ret = [ok |-> FALSE, error |-> "none"]

\* WorkingPeriod::try_from(value)
TryFrom ==
  /\ call_pc = "fresh"
  /\ arg.fn = "try_from"
  /\ ret' = WorkingPeriod_try_from(arg.value)
  /\ call_pc' = "returned"
  /\ UNCHANGED arg
  /\ UNCHANGED readerVars
  /\ UNCHANGED probeVars
  /\ UNCHANGED retryVars
  /\ UNCHANGED writerVars
  /\ UNCHANGED encVars

\* text.parse::<WorkingPeriod>()
FromStr ==
  /\ call_pc = "fresh"
  /\ arg.fn = "from_str"
  /\ ret' = WorkingPeriod_from_str(arg.text)
  /\ call_pc' = "returned"
  /\ UNCHANGED arg
  /\ UNCHANGED readerVars
  /\ UNCHANGED probeVars
  /\ UNCHANGED retryVars
  /\ UNCHANGED writerVars
  /\ UNCHANGED encVars

\* WorkingPeriod::from_byte(byte)
FromByte ==
  /\ call_pc = "fresh"
  /\ arg.fn = "from_byte"
  /\ ret' = OkVal(WorkingPeriod_from_byte(arg.byte))
  /\ call_pc' = "returned"
  /\ UNCHANGED arg
  /\ UNCHANGED readerVars
  /\ UNCHANGED probeVars
  /\ UNCHANGED retryVars
  /\ UNCHANGED writerVars
  /\ UNCHANGED encVars

\* the WorkingPeriod a call returned goes through as_byte and from_byte
ThroughByte ==
  /\ call_pc = "returned"
  /\ ret.ok
  /\ ret' = [ok |-> TRUE,
             before |-> ret.value,
             byte |-> WorkingPeriod_as_byte(ret.value),
             value |-> WorkingPeriod_from_byte(
                         WorkingPeriod_as_byte(ret.value))]
  /\ call_pc' = "round"
  /\ UNCHANGED arg
  /\ UNCHANGED readerVars
  /\ UNCHANGED probeVars
  /\ UNCHANGED retryVars
  /\ UNCHANGED writerVars
  /\ UNCHANGED encVars

NextPeriod == TryFrom \/ FromStr \/ FromByte \/ ThroughByte

\* ------------------------------------------------------------------------
\* checksum on the spans the protocol passes to it
\* ------------------------------------------------------------------------

RECURSIVE SumOverflows(_, _, _)
\* an accumulator with largest value max overflows at some byte of the
\* left-to-right sum
SumOverflows(max, acc, bytes) ==
  IF bytes = <<>> THEN FALSE
  ELSE IF acc + Head(bytes) > max THEN TRUE
  ELSE SumOverflows(max, acc + Head(bytes), Tail(bytes))

\* a checksum whose accumulator has the width of its result
checksum_call_U8(bytes) ==
  IF SumOverflows(255, 0, bytes)
  THEN {OkVal(checksum(bytes)), [ok |-> FALSE, error |-> "overflow"]}
  ELSE {OkVal(checksum(bytes))}

\* what a call of checksum can give: a sum that overflows the u16
\* accumulator panics in a build with overflow checks and wraps in one
\* without
checksum_call(bytes) ==
  IF SumOverflows(65535, 0, bytes)
  THEN {OkVal(checksum(bytes)), [ok |-> FALSE, error |-> "overflow"]}
  ELSE {OkVal(checksum(bytes))}

\* bytes[2..=7] of the response frames, the payloads of the commands, and
\* the largest spans of both lengths
ChecksumSpans ==
  { Slice(f, 2, 7) : f \in ProbeFrames \cup DecodeFrames }
    \cup { Command_data(c) : c \in EncCommands }
    \cup { Fill(255, 6), Fill(255, 15), Fill(0, 6), Fill(0, 15) }

ChecksumInit ==
  /\ call_pc = "fresh"
  /\ arg \in { [fn |-> "checksum", bytes |-> s] : s \in ChecksumSpans }
  /\ ret = [ok |-> FALSE, error |-> "none"]

\* checksum(bytes)
Checksum ==
  /\ call_pc = "fresh"
  /\ arg.fn = "checksum"
  /\ ret' \in checksum_call(arg.bytes)
  /\ call_pc' = "returned"
  /\ UNCHANGED arg
  /\ UNCHANGED readerVars
  /\ UNCHANGED probeVars
  /\ UNCHANGED retryVars
  /\ UNCHANGED writerVars
  /\ UNCHANGED encVars

NextChecksum == Checksum

\* ------------------------------------------------------------------------
\* Resp::try_into_response on every variant and every target type
\* ------------------------------------------------------------------------

\* the six types that implement Response
ResponseTypes ==
  {"SetReportingModeResponse", "QueryResponse", "SetDeviceIdResponse",
   "SetSleepWorkResponse", "SetWorkingPeriodResponse",
   "GetFirmwareVersionResponse"}

\* the Resp values parse_packet gives for the frames it accepts
DecodedResps ==
  { parse_packet(f).resp :
      f \in { g \in ProbeFrames \cup DecodeFrames : parse_packet(g).ok } }

ConvertInit ==
  /\ call_pc = "fresh"
  /\ arg \in { [fn |-> "try_into_response", resp |-> r, target |-> T] :
                 r \in DecodedResps, T \in ResponseTypes }
  /\ ret = [ok |-> FALSE, error |-> "none"]

\* resp.try_into_response::<T>()
Convert ==
  /\ call_pc = "fresh"
  /\ arg.fn = "try_into_response"
  /\ ret' = try_into_response(arg.resp, arg.target)
  /\ call_pc' = "returned"
  /\ UNCHANGED arg
  /\ UNCHANGED readerVars
  /\ UNCHANGED probeVars
  /\ UNCHANGED retryVars
  /\ UNCHANGED writerVars
  /\ UNCHANGED encVars

NextConvert == Convert

\* ------------------------------------------------------------------------
\* Specifications
\* ------------------------------------------------------------------------

Init ==
  ReaderInit /\ ProbeIdle /\ RetryIdle /\ WriterIdle /\ EncIdle /\ CallIdle

Spec == Init /\ [][Next]_vars

\* read_thread is a thread of its own: the scheduler lets it take the byte
\* the transport holds; a read error ends the thread, so it needs no
\* fairness
SpecFair == Init /\ [][Next]_vars /\ WF_vars(ReadByte)

InitParse ==
  ReaderInit /\ ProbeInit /\ RetryIdle /\ WriterIdle /\ EncIdle /\ CallIdle

SpecParse == InitParse /\ [][NextParse]_vars

SpecTail == InitParse /\ [][NextTail]_vars

InitLength ==
  ReaderInit /\ LengthInit /\ RetryIdle /\ WriterIdle /\ EncIdle /\ CallIdle

SpecLength == InitLength /\ [][NextLength]_vars

InitDecode ==
  ReaderInit /\ DecodeInit /\ RetryIdle /\ WriterIdle /\ EncIdle /\ CallIdle

SpecDecode == InitDecode /\ [][NextDecode]_vars

InitRetry ==
  ReaderInit /\ ProbeIdle /\ RetryInit /\ WriterIdle /\ EncIdle /\ CallIdle

SpecIO == Init /\ [][NextIO]_vars

\* write_thread is a thread of its own: the scheduler lets it take the
\* pass of its loop, or the end of the loop, that stays possible; a pass
\* that the transport refuses ends the thread, so it needs no fairness
SpecWriterFair ==
  /\ Init
  /\ [][NextWriter]_vars
  /\ WF_vars(TakeCommand)
  /\ WF_vars(WriteOk)
  /\ WF_vars(WriterExit)

InitShutdown ==
  ReaderLoaded /\ ProbeIdle /\ RetryIdle /\ WriterIdle /\ EncIdle /\ CallIdle

SpecShutdownFair ==
  /\ InitShutdown
  /\ [][NextShutdown]_vars
  /\ WF_vars(TakeCommand)
  /\ WF_vars(WriteOk)
  /\ WF_vars(WriterExit)

SpecRetry == InitRetry /\ [][NextRetry]_vars

InitEncode ==
  ReaderInit /\ ProbeIdle /\ RetryIdle /\ WriterIdle /\ EncInit /\ CallIdle

SpecEncode == InitEncode /\ [][NextEncode]_vars

InitPeriod ==
  ReaderInit /\ ProbeIdle /\ RetryIdle /\ WriterIdle /\ EncIdle /\ PeriodInit

SpecPeriod == InitPeriod /\ [][NextPeriod]_vars

InitChecksum ==
  ReaderInit /\ ProbeIdle /\ RetryIdle /\ WriterIdle /\ EncIdle /\ ChecksumInit

SpecChecksum == InitChecksum /\ [][NextChecksum]_vars

InitConvert ==
  ReaderInit /\ ProbeIdle /\ RetryIdle /\ WriterIdle /\ EncIdle /\ ConvertInit

SpecConvert == InitConvert /\ [][NextConvert]_vars

InitRetryFlow ==
  ReaderInit /\ ProbeIdle /\ RetryFlowInit /\ WriterIdle /\ EncIdle /\ CallIdle

\* send_and_wait runs on its caller's thread and takes every step of its
\* loop; the Reader's deliveries are under no obligation and outlast the
\* call
SpecRetryFair ==
  /\ InitRetryFlow
  /\ [][NextRetryFlow]_vars
  /\ WF_vars(SendAndWait_Send)
  /\ WF_vars(SendAndWait_Recv)
  /\ WF_vars(SendAndWait_Sleep)

\* ------------------------------------------------------------------------
\* Claims about the retry / correlation layer
\* ------------------------------------------------------------------------

\* the responses the call took from the stream, in the order taken
ReceivedResps == [k \in 1..Len(received) |-> received[k].resp]

\* the call has returned (matched response, unrelated responses)
ReturnedOk == sw_pc = "returned" /\ outcome.ok

\* C8 - Correlation result: the call returns as soon as it takes a response
\* of the awaited kind from the stream, with that response and with every
\* response of another kind it took before, in the order taken, each once;
\* no response leaves the stream without being taken by the call.
C8_CorrelationResult ==
  /\ \A i \in 1..Len(received) :
       received[i].resp.kind = sw_command.kind
         => (i = Len(received) /\ ReturnedOk)
  /\ ReturnedOk =>
       /\ Len(received) >= 1
       /\ received[Len(received)].resp.kind = sw_command.kind
       /\ outcome.resp = Inner(received[Len(received)].resp)
       /\ outcome.unrelated = SubSeq(ReceivedResps, 1, Len(received) - 1)
       /\ \A i \in 1..Len(outcome.unrelated) :
            outcome.unrelated[i].kind # sw_command.kind
  /\ Len(received) + Len(responses) = ndelivered

C8_Witness ==
  /\ ReturnedOk
  /\ Len(outcome.unrelated) = 2
  /\ outcome.unrelated[1].kind = "Query"
  /\ outcome.unrelated[2].kind # "Query"
  /\ outcome.resp.device = 41312

\* C9 - Retries exhausted: the command is put on the command queue once per
\* attempt and never more than config.retries times; a call that returns
\* without having taken a response of the awaited kind has sent the command
\* exactly config.retries times and returns RetriesExceeded naming the
\* command.
C9_RetriesExhausted ==
  /\ Len(command_queue) <= config.retries
  /\ \A i \in 1..Len(command_queue) :
       command_queue[i] = [data |-> Command_write(sw_command)]
  /\ sw_pc = "poll" => Len(command_queue) = attempt
  /\ ( /\ sw_pc = "returned"
       /\ \A i \in 1..Len(received) :
            received[i].resp.kind # sw_command.kind )
     => /\ ~outcome.ok
        /\ outcome.error = "RetriesExceeded"
        /\ outcome.command = sw_command
        /\ Len(command_queue) = config.retries

C9_Witness ==
  /\ sw_pc = "returned"
  /\ ~outcome.ok
  /\ outcome.error = "RetriesExceeded"
  /\ config.retries = DefaultRetries
  /\ Len(command_queue) = DefaultRetries
  /\ Len(received) >= 1

\* C10 - Success on a later attempt: when the awaited response is first
\* taken from the stream during attempt k, the call returns success having
\* sent the command exactly k times (1 <= k <= config.retries), and the
\* unrelated responses taken during attempts 1..k-1 open the returned list
\* in the order they were taken.
C10_SuccessOnLaterAttempt ==
  /\ \A i \in 1..Len(received) :
       received[i].resp.kind = sw_command.kind => ReturnedOk
  /\ ReturnedOk =>
       LET k == received[Len(received)].attempt
           Before(e) == e.attempt < k
           earlier == SelectSeq(received, Before)
       IN  /\ \A i \in 1..(Len(received) - 1) :
                received[i].resp.kind # sw_command.kind
           /\ received[Len(received)].resp.kind = sw_command.kind
           /\ k >= 1
           /\ k <= config.retries
           /\ Len(command_queue) = k
           /\ Len(outcome.unrelated) >= Len(earlier)
           /\ \A i \in 1..Len(earlier) :
                outcome.unrelated[i] = earlier[i].resp

C10_Witness ==
  /\ ReturnedOk
  /\ Len(received) = 3
  /\ received[1].attempt = 1
  /\ received[2].attempt = 2
  /\ received[3].attempt = 3
  /\ Len(command_queue) = 3
  /\ Len(outcome.unrelated) = 2

\* the unrelated-responses list as the caller sees it: the accumulator
\* while the call runs, the returned list after a match
UnrelatedSoFar == IF ReturnedOk THEN outcome.unrelated ELSE unrelated

\* C11 - No mistaken reply: the response returned as the match is of the
\* awaited kind; a decoded response of another kind taken from the stream
\* is appended to the unrelated-responses list, does not end the wait (a
\* call that has returned right after it returned on the timeout of its
\* last attempt), and is reported neither as the call's error nor on the
\* control channel.
C11_NoMistakenReply ==
  /\ ReturnedOk =>
       /\ received[Len(received)].resp.kind = sw_command.kind
       /\ outcome.resp = Inner(received[Len(received)].resp)
  /\ \A i \in 1..Len(received) :
       received[i].resp.kind # sw_command.kind =>
         /\ i <= Len(UnrelatedSoFar)
         /\ UnrelatedSoFar[i] = received[i].resp
         /\ (i = Len(received) /\ sw_pc = "returned") =>
              /\ outcome = RetriesExceeded(sw_command)
              /\ attempt = config.retries
              /\ elapsed >= config.timeout
  /\ (sw_pc = "returned" /\ ~outcome.ok) => outcome.error = "RetriesExceeded"
  /\ control = <<>>

C11_Witness ==
  /\ sw_pc = "poll"
  /\ sw_command.kind = "SetWorkingPeriod"
  /\ Len(received) = 2
  /\ received[1].resp.kind = "Query"
  /\ received[2].resp.kind = "Query"
  /\ unrelated = <<received[1].resp, received[2].resp>>
  /\ outcome = NoOutcome

\* the polls of attempt k that found a response
PollsIn(k) == {i \in 1..Len(received) : received[i].attempt = k}

\* C12 - Bounded wait: a call never starts an attempt beyond config.retries,
\* never polls past the timeout of an attempt however many responses the
\* stream delivers, and every call that has begun returns, with a match or
\* with retries-exhausted, also when the stream has a response at every
\* poll.
C12_BoundedWait ==
  /\ [](/\ attempt <= config.retries
        /\ Len(command_queue) <= config.retries
        /\ (sw_pc = "poll" => elapsed < config.timeout)
        /\ \A k \in 1..config.retries :
             Cardinality(PollsIn(k)) * config.poll_interval
               <= config.timeout
        /\ (sw_pc = "returned" =>
              outcome.ok \/ outcome = RetriesExceeded(sw_command)))
  /\ (sw_pc # "idle") ~> (sw_pc = "returned")

\* a call that found an unrelated response at every poll of every attempt
\* and left the stream with responses unread
C12_Witness ==
  /\ sw_pc = "returned"
  /\ outcome = RetriesExceeded(sw_command)
  /\ config.retries >= 2
  /\ attempt = config.retries
  /\ \A k \in 1..config.retries :
       Cardinality(PollsIn(k)) * config.poll_interval = config.timeout
  /\ Len(received) = config.retries * FlowPolls
  /\ \A i \in 1..Len(received) : received[i].resp.kind # sw_command.kind
  /\ responses # <<>>

\* ------------------------------------------------------------------------
\* Claims about the Reader's and the Writer's fatal errors and ordering
\* ------------------------------------------------------------------------

\* the FatalError messages on the control channel
FatalAt == {k \in 1..Len(control) : control[k].level = "FatalError"}

\* C14 - Reader fatal error: the step in which the transport read fails
\* sends exactly one message, FatalError(ReadError), on the control channel
\* and nothing on the response stream, whether or not a frame was partly
\* accumulated; it is the Reader's last step: the Reader is terminated and
\* no response and no control event follows. A Reader that ended because
\* the transport reached the end of its stream has sent no FatalError.
C14_ReaderFatal ==
  /\ \A i \in 1..Len(history) :
       history[i].byte = -1 =>
         /\ i = Len(history)
         /\ reader_pc = "done"
         /\ history[i].nctl = NCtlAfter(i - 1) + 1
         /\ history[i].nresp = NRespAfter(i - 1)
         /\ control[history[i].nctl] = CtlFatalRead
         /\ Len(control) = history[i].nctl
         /\ Len(responses) = history[i].nresp
         /\ Cardinality(FatalAt) = 1
  /\ reader_pc = "done" =>
       /\ Len(history) >= 1
       /\ history[Len(history)].byte = -1
       /\ ~ENABLED ReadByte
       /\ ~ENABLED ReadError
  /\ reader_pc = "ended" =>
       \A k \in 1..Len(control) : control[k] # CtlFatalRead

C14_Witness ==
  /\ reader_pc = "done"
  /\ Len(history) >= 15
  /\ history[Len(history)].len_before = 4
  /\ Len(responses) = 1
  /\ Len(control) = 1
  /\ port_rx # <<>>

\* the responses decoded from the frames completed in steps 1 .. p, in the
\* order their last bytes were read
RECURSIVE DecodedUpTo(_)
DecodedUpTo(p) ==
  IF p = 0 THEN <<>>
  ELSE LET prev == DecodedUpTo(p - 1)
       IN  IF history[p].byte >= 0 /\ history[p].len_before = FRAME_LEN - 1
             THEN LET r == parse_packet(FrameAt(p - 9))
                  IN  IF r.ok THEN Append(prev, r.resp) ELSE prev
             ELSE prev

\* C16 - Response ordering: after every step of the Reader the response
\* stream holds exactly the responses of the frames decoded so far, one per
\* frame, in the order the frames' bytes were read; equal frames read one
\* after the other each give a response.
C16_ResponseOrdering ==
  /\ responses = DecodedUpTo(Len(history))
  /\ \A p \in 1..Len(history) :
       SubSeq(responses, 1, history[p].nresp) = DecodedUpTo(p)

C16_Witness ==
  /\ Len(history) = 30
  /\ BytesIn(1, 30)
  /\ FrameAt(1) = FrameAt(11)
  /\ FrameAt(21) # FrameAt(1)
  /\ Len(responses) = 3
  /\ responses[1] = responses[2]
  /\ responses[2].kind = "Query"
  /\ responses[3].kind = "SetWorkingPeriod"

\* the bytes the transport took of the command of a Writer pass
TakenOf(e) == SubSeq(e.cmd.data, 1, e.taken)

TookBytes(e) == e.taken > 0

\* the Writer is inside write_all
InPass == writer_pc = "writing"

\* the number of commands the Writer has taken and not finished with: 0 or 1
NInPass == IF InPass THEN 1 ELSE 0

\* the bytes the transport has taken of the command being written
PassRun ==
  IF InPass /\ write_taken > 0
    THEN <<SubSeq(write_cmd.data, 1, write_taken)>>
    ELSE <<>>

\* the byte runs the transport took in the Writer's passes, in order
TakenRuns ==
  LET took == SelectSeq(wlog, TookBytes)
  IN  [k \in 1..Len(took) |-> TakenOf(took[k])] \o PassRun

\* the FatalError(WriteError) messages on the control channel
WriteFatalAt == {k \in 1..Len(control) : control[k] = CtlFatalWrite}

\* the Writer has reported a failed write
WriterFailed == writer_pc \in {"reported", "done"}

\* C15 - Writer fatal error, no transport retry: the pass in which a write
\* fails is the Writer's last; exactly one FatalError(WriteError) is on the
\* control channel from then on and none before; the transport holds only
\* what the Writer's passes up to and including the failed one gave it, so
\* the failed command is not written again, the commands still queued or
\* enqueued before the receiver is dropped stay unwritten, and a send after
\* the drop is refused.
C15_WriterFatal ==
  /\ \A i \in 1..Len(wlog) :
       ~wlog[i].ok => (i = Len(wlog) /\ WriterFailed)
  /\ ~WriterFailed => WriteFatalAt = {}
  /\ WriterFailed =>
       /\ Len(wlog) >= 1
       /\ ~wlog[Len(wlog)].ok
       /\ Cardinality(WriteFatalAt) = 1
       /\ ~ENABLED TakeCommand
       /\ ~ENABLED WritePart
       /\ ~ENABLED WriteOk
       /\ ~ENABLED WriteFail
       /\ Len(port_tx) <= Len(wlog)
       /\ \A j \in 1..Len(port_tx) :
            port_tx[j] = wlog[Len(wlog)].cmd.data => j < Len(wlog)
  /\ writer_pc = "done" => ~ENABLED Enqueue
  /\ port_tx = TakenRuns
  /\ Len(wlog) + NInPass + Len(command_queue) = Len(enqueued)

C15_Witness ==
  /\ writer_pc = "done"
  /\ Len(wlog) = 1
  /\ wlog[1].taken = 7
  /\ Len(command_queue) = 1
  /\ send_failed = 1
  /\ port_tx = <<SubSeq(enqueued[1].data, 1, 7)>>
  /\ enqueued[2] = enqueued[1]

\* no write has failed so far
NoWriteFailed == \A i \in 1..Len(wlog) : wlog[i].ok

RECURSIVE Concat(_)
Concat(runs) ==
  IF runs = <<>> THEN <<>> ELSE Head(runs) \o Concat(Tail(runs))

\* C17 - Writer ordering: as long as no write has failed, the transport has
\* taken one run of bytes per command written, the k-th run is the complete
\* 19-byte encoding of the k-th command enqueued, the command being
\* written is the next one enqueued and its run so far a prefix of its
\* encoding, and the commands not yet taken are the rest of the enqueued
\* ones, in order; the bytes on the transport are the concatenation of
\* those encodings.
C17_WriterOrdering ==
  NoWriteFailed =>
    /\ Len(port_tx) = Len(wlog) + Len(PassRun)
    /\ Len(port_tx) <= Len(enqueued)
    /\ \A k \in 1..Len(wlog) :
         /\ port_tx[k] = enqueued[k].data
         /\ Len(port_tx[k]) = 19
    /\ InPass => write_cmd = enqueued[Len(wlog) + 1]
    /\ command_queue
         = SubSeq(enqueued, Len(wlog) + NInPass + 1, Len(enqueued))
    /\ Concat(port_tx)
         = Concat([k \in 1..Len(wlog) |-> enqueued[k].data])
             \o Concat(PassRun)
    /\ Len(Concat(port_tx)) = 19 * Len(wlog) + write_taken

C17_Witness ==
  /\ NoWriteFailed
  /\ Len(port_tx) = 3
  /\ enqueued[1] # enqueued[2]
  /\ enqueued[3] = enqueued[1]
  /\ port_tx[1] = to_cmd([kind |-> "GetFirmwareVersion"]).data
  /\ command_queue = <<>>

\* C18 - A fatal error ends only the owning context: the Reader is
\* terminated with a FatalError only by its own read error and the Writer
\* only by its own write error; after the Writer has terminated the Reader
\* still reads the bytes the transport holds and publishes every frame it
\* decodes, and after the Reader has terminated the Writer still takes the
\* queued commands and writes them, in every interleaving of the two.
C18_FatalEndsOnlyOwner ==
  /\ reader_pc = "done"
       <=> (Len(history) >= 1 /\ history[Len(history)].byte = -1)
  /\ WriterFailed <=> (Len(wlog) >= 1 /\ ~wlog[Len(wlog)].ok)
  /\ (WriterFailed /\ reader_pc = "running" /\ port_rx # <<>>)
       => ENABLED ReadByte
  /\ (reader_pc # "running" /\ writer_pc = "running"
        /\ command_queue # <<>>)
       => ENABLED TakeCommand
  /\ (reader_pc # "running" /\ InPass) => ENABLED WriteOk
  /\ responses = DecodedUpTo(Len(history))
  /\ NoWriteFailed =>
       \A k \in 1..Len(wlog) : port_tx[k] = enqueued[k].data

C18_Witness ==
  /\ control = <<CtlFatalRead>>
  /\ reader_pc = "done"
  /\ writer_pc = "running"
  /\ Len(wlog) = 2
  /\ wlog[1].nctl = 0
  /\ wlog[2].nctl = 1
  /\ port_tx = <<enqueued[1].data, enqueued[2].data>>

\* ------------------------------------------------------------------------
\* Claims about the command encoder
\* ------------------------------------------------------------------------

\* the encoder has been applied to enc_command
Written == enc_pc # "fresh"

\* the data section of the written frame, bytes 2 ..= 16
Payload == SubSeq(enc_bytes, 3, 17)

\* offsets of the data section that carry no field of the command
ReservedOffsets(cmd) ==
  CASE cmd.kind \in {"Query", "GetFirmwareVersion"} -> 1..12
    [] cmd.kind = "SetDeviceId" -> 1..10
    [] OTHER -> 3..12

\* C19 - Command frame shape: for every command the encoder returns 19
\* bytes: 0xAA, 0xB4, fifteen data bytes whose last two are 0xFF 0xFF and
\* whose reserved bytes are 0x00, the sum of the fifteen data bytes modulo
\* 256, and 0xAB; writing the same command again gives the same bytes.
C19_FrameShape ==
  /\ [](Written =>
          /\ Len(enc_bytes) = 19
          /\ \A k \in 1..19 : enc_bytes[k] \in Byte
          /\ At(enc_bytes, 0) = 170
          /\ At(enc_bytes, 1) = 180
          /\ At(Payload, 13) = 255
          /\ At(Payload, 14) = 255
          /\ \A o \in ReservedOffsets(enc_command) : At(Payload, o) = 0
          /\ At(enc_bytes, 17) = ByteSum(Payload) % 256
          /\ At(enc_bytes, 18) = 171)
  /\ [][enc_pc = "written" => enc_bytes' = enc_bytes]_vars

C19_Witness ==
  /\ enc_pc = "rewritten"
  /\ enc_command.kind = "SetWorkingPeriod"
  /\ enc_command.working_period = [tag |-> "Periodic", n |-> 255]
  /\ ~enc_command.query
  /\ ByteSum(Payload) = 774
  /\ At(enc_bytes, 17) = 6

\* the sub-type byte of each command variant
VariantByte(kind) ==
  CASE kind = "SetReportingMode" -> 2
    [] kind = "Query" -> 4
    [] kind = "SetDeviceId" -> 5
    [] kind = "SetSleepWork" -> 6
    [] kind = "SetWorkingPeriod" -> 8
    [] kind = "GetFirmwareVersion" -> 7

\* C20 - Encode round-trip: for every command the data section gives back
\* the command's fields: payload[0] is the variant's sub-type byte and no
\* two variants share one, query is (payload[1] = 0x00), from_byte of
\* payload[2] is the mode or period that was encoded, the big-endian pair
\* payload[11..=12] is the SetDeviceId id; no other command has the same
\* encoding.
C20_EncodeRoundTrip ==
  Written =>
    /\ At(Payload, 0) = VariantByte(enc_command.kind)
    /\ \A c \in EncCommands :
         VariantByte(c.kind) = At(Payload, 0) => c.kind = enc_command.kind
    /\ enc_command.kind \in {"SetReportingMode", "SetSleepWork",
                             "SetWorkingPeriod"}
         => enc_command.query = (At(Payload, 1) = 0)
    /\ enc_command.kind = "SetReportingMode"
         => ReportingMode_from_byte(At(Payload, 2)) = enc_command.mode
    /\ enc_command.kind = "SetSleepWork"
         => WorkMode_from_byte(At(Payload, 2)) = enc_command.mode
    /\ enc_command.kind = "SetWorkingPeriod"
         => WorkingPeriod_from_byte(At(Payload, 2))
              = enc_command.working_period
    /\ enc_command.kind = "SetDeviceId"
         => GetU16(Payload, 11) = enc_command.id
    /\ \A c \in EncCommands :
         Command_write(c) = enc_bytes => c = enc_command

\* ------------------------------------------------------------------------
\* Claims about the response decoders
\* ------------------------------------------------------------------------

\* C21 - SetWorkingPeriodResponse decoding: a checksum-valid frame with
\* bytes[1] = 0xC5 and bytes[2] = 0x08 decodes to a SetWorkingPeriod
\* response whose query is (bytes[3] = 0x00), whose working period is
\* Continuous when bytes[4] = 0 and Periodic(bytes[4]) otherwise, and whose
\* device is bytes[6] * 256 + bytes[7]; AA C5 08 00 05 00 A1 60 0E AB gives
\* query = true, Periodic(5), device = 0xA160.
C21_WorkingPeriodDecoding ==
  /\ ( /\ Parsed
       /\ DataSumMatches(packet)
       /\ At(packet, 1) = 197
       /\ At(packet, 2) = 8 )
     => /\ result.ok
        /\ result.resp =
             [kind |-> "SetWorkingPeriod",
              query |-> (At(packet, 3) = 0),
              working_period |->
                IF At(packet, 4) = 0 THEN [tag |-> "Continuous"]
                ELSE [tag |-> "Periodic", n |-> At(packet, 4)],
              device |-> At(packet, 6) * 256 + At(packet, 7)]
  /\ ( Parsed /\ packet = <<170, 197, 8, 0, 5, 0, 161, 96, 14, 171>> )
     => /\ result.ok
        /\ result.resp.query
        /\ result.resp.working_period = [tag |-> "Periodic", n |-> 5]
        /\ result.resp.device = 41312

C21_Witness ==
  /\ Parsed
  /\ packet = <<170, 197, 8, 0, 5, 0, 161, 96, 14, 171>>
  /\ result.ok
  /\ result.resp.working_period = [tag |-> "Periodic", n |-> 5]

\* C22 - QueryResponse decoding: a checksum-valid frame with bytes[1] = 0xC0
\* decodes to a reading whose raw pm25 value, in tenths, is
\* bytes[2] + 256 * bytes[3], whose raw pm10 value is
\* bytes[4] + 256 * bytes[5] and whose device is bytes[6] * 256 + bytes[7];
\* the pair 0x34, 0x00 gives 52 tenths (5.2) and 0x50, 0x00 gives 80 (8.0).
C22_QueryDecoding ==
  ( /\ Parsed
    /\ DataSumMatches(packet)
    /\ At(packet, 1) = 192 )
  => /\ result.ok
     /\ result.resp =
          [kind |-> "Query",
           pm25 |-> At(packet, 2) + 256 * At(packet, 3),
           pm10 |-> At(packet, 4) + 256 * At(packet, 5),
           device |-> At(packet, 6) * 256 + At(packet, 7)]
     /\ (At(packet, 2) = 52 /\ At(packet, 3) = 0)
          => (result.resp.pm25 \div 10 = 5 /\ result.resp.pm25 % 10 = 2)
     /\ (At(packet, 4) = 80 /\ At(packet, 5) = 0)
          => (result.resp.pm10 \div 10 = 8 /\ result.resp.pm10 % 10 = 0)

C22_Witness ==
  /\ Parsed
  /\ packet = <<170, 192, 52, 0, 80, 0, 161, 96, 133, 171>>
  /\ result.ok
  /\ result.resp.pm25 = 52
  /\ result.resp.pm10 = 80
  /\ result.resp.device = 41312

\* ------------------------------------------------------------------------
\* Claims about WorkingPeriod
\* ------------------------------------------------------------------------

\* a call of try_from or from_str has returned
ParsedPeriod ==
  call_pc = "returned" /\ arg.fn \in {"try_from", "from_str"}

\* C23 - WorkingPeriod parsing accepts exactly the integers 0..=30:
\* try_from(0) is Continuous, try_from(n) is Periodic(n) for n in 1..=30 and
\* every other integer is rejected with InvalidWorkingPeriod; a period that
\* parsing returns, from an integer or from text, is never out of range.
C23_ParseRange ==
  /\ (call_pc = "returned" /\ arg.fn = "try_from") =>
       IF arg.value = 0 THEN ret = OkVal([tag |-> "Continuous"])
       ELSE IF arg.value >= 1 /\ arg.value <= 30
         THEN ret = OkVal([tag |-> "Periodic", n |-> arg.value])
       ELSE ~ret.ok /\ ret.error = "InvalidWorkingPeriod"
  /\ (ParsedPeriod /\ ret.ok) =>
       \/ ret.value = [tag |-> "Continuous"]
       \/ /\ ret.value.tag = "Periodic"
          /\ ret.value.n >= 1
          /\ ret.value.n <= 30

C23_Witness ==
  /\ call_pc = "returned"
  /\ arg = [fn |-> "try_from", value |-> 286]
  /\ ~ret.ok
  /\ ret.error = "InvalidWorkingPeriod"
  /\ ret.period = <<"2", "8", "6">>

\* C24 - WorkingPeriod rejection kind: parsing 31 and parsing the text "-1"
\* are both rejected with the error whose reason is
\* 'value out of range (0 <= n <= 30)'.
C24_RejectionKind ==
  ( /\ call_pc = "returned"
    /\ \/ arg = [fn |-> "try_from", value |-> 31]
       \/ arg = [fn |-> "from_str", text |-> <<"3", "1">>]
       \/ arg = [fn |-> "from_str", text |-> <<"-", "1">>] )
  => /\ ~ret.ok
     /\ ret.error = "InvalidWorkingPeriod"
     /\ ret.reason = "value out of range (0 <= n <= 30)"

\* C26 - WorkingPeriod byte mapping: from_byte(0) is Continuous and
\* from_byte(b) is Periodic(b) for b in 1..=255; as_byte(from_byte(b)) is b
\* for every byte b; from_byte(as_byte(p)) is p for every WorkingPeriod p
\* that try_from, from_str or from_byte returned.
C26_ByteMapping ==
  /\ (call_pc = "returned" /\ arg.fn = "from_byte") =>
       ret.value = IF arg.byte = 0 THEN [tag |-> "Continuous"]
                   ELSE [tag |-> "Periodic", n |-> arg.byte]
  /\ (call_pc = "round" /\ arg.fn = "from_byte") => ret.byte = arg.byte
  /\ call_pc = "round" => ret.value = ret.before

C26_Witness ==
  /\ call_pc = "round"
  /\ arg = [fn |-> "from_byte", byte |-> 255]
  /\ ret.before = [tag |-> "Periodic", n |-> 255]
  /\ ret.byte = 255
  /\ ret.value = ret.before

\* a WorkingPeriod value within the range 1..30, or Continuous
InPeriodRange(p) ==
  p.tag = "Periodic" => (p.n >= 1 /\ p.n <= 30)

\* C25 - WorkingPeriod range invariant: every Periodic(n) the system holds,
\* returned by try_from, from_str or from_byte, carried by a command that
\* is encoded, or decoded from a response frame, has 1 <= n <= 30.
C25_PeriodRange ==
  /\ (call_pc = "returned" /\ ret.ok) => InPeriodRange(ret.value)
  /\ (enc_pc # "fresh" /\ enc_command.kind = "SetWorkingPeriod") =>
       InPeriodRange(enc_command.working_period)
  /\ (Parsed /\ result.ok /\ result.resp.kind = "SetWorkingPeriod") =>
       InPeriodRange(result.resp.working_period)

\* ------------------------------------------------------------------------
\* Claims about checksum
\* ------------------------------------------------------------------------

\* C27 - Checksum function: on every span the protocol passes to it, the 6
\* bytes of a response and the 15 payload bytes of a command, checksum
\* returns the sum of the bytes mod 256, and the sum stays within 16 bits.
C27_ChecksumSpans ==
  (call_pc = "returned" /\ arg.fn = "checksum") =>
    /\ Len(arg.bytes) \in {6, 15}
    /\ ByteSum(arg.bytes) <= 15 * 255
    /\ ByteSum(arg.bytes) < 65536
    /\ ret = OkVal(ByteSum(arg.bytes) % 256)

C27_Witness ==
  /\ call_pc = "returned"
  /\ arg.fn = "checksum"
  /\ arg.bytes = Fill(255, 15)
  /\ ret = OkVal(241)

\* ------------------------------------------------------------------------
\* Claims about the tail marker
\* ------------------------------------------------------------------------

\* the outcome of parse_packet without the bytes quoted in an error
Outcome(r) ==
  IF r.ok THEN [ok |-> TRUE, resp |-> r.resp]
  ELSE [ok |-> FALSE, error |-> r.error, reason |-> r.reason]

\* the id pairs parse_packet dispatches on
KnownIds(pkt) ==
  \/ At(pkt, 1) = 192
  \/ At(pkt, 1) = 197 /\ At(pkt, 2) \in {2, 5, 6, 7, 8}

\* C28 - Tail marker is not validated: two 10-byte frames that agree on
\* bytes 0..=8 and differ only in byte 9 get the same outcome from
\* parse_packet, the same response or the same kind of error, and a
\* checksum-valid frame with a known id pair decodes whatever byte 9 is.
C28_TailIgnored ==
  /\ probe_pc = "retailed" =>
       /\ Slice(packet, 0, 8) = Slice(original, 0, 8)
       /\ At(packet, 9) # At(original, 9)
       /\ Outcome(result) = Outcome(parse_packet(original))
  /\ (Parsed /\ Len(packet) = 10 /\ DataSumMatches(packet)
        /\ KnownIds(packet))
     => result.ok

C28_Witness ==
  /\ probe_pc = "retailed"
  /\ At(original, 9) = 171
  /\ At(packet, 9) = 0
  /\ DataSumMatches(packet)
  /\ result.ok
  /\ result.resp.kind = "Query"

C28_WitnessError ==
  /\ probe_pc = "retailed"
  /\ At(original, 9) = 171
  /\ At(packet, 9) = 255
  /\ ~result.ok
  /\ result.reason = "invalid checksum"

\* ------------------------------------------------------------------------
\* Claims about Resp conversion
\* ------------------------------------------------------------------------

\* the variant of the Resp is the one named by the target type
Belongs(resp, T) == resp.kind \o "Response" = T

\* C29 - Resp conversion: try_into_response::<T>() returns Ok with the inner
\* response exactly when the Resp variant is the one belonging to T, for
\* each of the six response types; for every other variant it returns
\* InvalidResponseConversion with the original Resp and the name of T.
C29_Conversion ==
  (call_pc = "returned" /\ arg.fn = "try_into_response") =>
    /\ ret.ok <=> Belongs(arg.resp, arg.target)
    /\ ret.ok =>
         /\ DOMAIN ret.resp = (DOMAIN arg.resp) \ {"kind"}
         /\ \A f \in DOMAIN ret.resp : ret.resp[f] = arg.resp[f]
    /\ ~ret.ok =>
         /\ ret.error = "InvalidResponseConversion"
         /\ ret.resp = arg.resp
         /\ ret.target = arg.target

C29_Witness ==
  /\ call_pc = "returned"
  /\ arg.fn = "try_into_response"
  /\ arg.resp.kind = "Query"
  /\ arg.target = "SetWorkingPeriodResponse"
  /\ ~ret.ok
  /\ ret.resp = arg.resp
  /\ ret.target = "SetWorkingPeriodResponse"

C29_WitnessOk ==
  /\ call_pc = "returned"
  /\ arg.fn = "try_into_response"
  /\ arg.resp.kind = "GetFirmwareVersion"
  /\ arg.target = "GetFirmwareVersionResponse"
  /\ ret.ok

\* ------------------------------------------------------------------------
\* Claims about the separation of Reader and Writer
\* ------------------------------------------------------------------------

RECURSIVE SoloRun(_)
\* the Reader alone, from an empty accumulator, on the first p items that
\* port.bytes() yielded
SoloRun(p) ==
  IF p = 0 THEN [cur |-> None, tx |-> <<>>, ctl |-> <<>>]
  ELSE LET prev == SoloRun(p - 1)
       IN  IF history[p].byte = -1
             THEN [prev EXCEPT !.ctl = Append(prev.ctl, CtlFatalRead)]
             ELSE LET f == Feed(prev.cur, history[p].byte)
                  IN  [cur |-> f.cur,
                       tx |-> prev.tx \o f.tx,
                       ctl |-> prev.ctl \o f.ctl]

\* the control events the Reader published
ReaderControl == SelectSeq(control, LAMBDA c : c # CtlFatalWrite)

\* the Reader's buffer and output are those of the Reader running alone
SameAsSolo ==
  LET solo == SoloRun(Len(history))
  IN  /\ current_packet = solo.cur
      /\ responses = solo.tx
      /\ ReaderControl = solo.ctl

\* a Writer step leaves the Reader's side alone and a Reader step the
\* Writer's side
StepsApart ==
  /\ <<writer_pc, write_cmd, write_taken, wlog>>'
       # <<writer_pc, write_cmd, write_taken, wlog>> =>
       /\ current_packet' = current_packet
       /\ responses' = responses
       /\ port_rx' = port_rx
       /\ reader_pc' = reader_pc
  /\ <<history, reader_pc>>' # <<history, reader_pc>> =>
       /\ command_queue' = command_queue
       /\ port_tx' = port_tx
       /\ writer_pc' = writer_pc
       /\ write_cmd' = write_cmd
       /\ write_taken' = write_taken

\* C30 - No shared protocol state: a Writer step leaves the Reader's
\* accumulator and the response stream unchanged, a Reader step leaves the
\* command queue and the written bytes unchanged, and the responses and
\* control events the Reader publishes are those of the Reader running
\* alone on the same bytes, in every interleaving with the Writer.
C30_NoSharedState == [](SameAsSolo) /\ [][StepsApart]_vars

C30_Witness ==
  /\ Len(history) = 10
  /\ Len(wlog) = 3
  /\ wlog[1].nctl = 0
  /\ wlog[2].nctl = 1
  /\ ~wlog[3].ok
  /\ Len(control) = 2
  /\ control[2] = CtlFatalWrite
  /\ Len(ReaderControl) = 1
  /\ responses = <<>>

C30_WitnessResponse ==
  /\ Len(history) = 10
  /\ Len(wlog) = 2
  /\ Len(responses) = 1
  /\ port_tx = <<enqueued[1].data, enqueued[2].data>>

\* ------------------------------------------------------------------------
\* Claims about delivery
\* ------------------------------------------------------------------------

\* the k-th command put on the queue has been written in full
WrittenInFull(k) ==
  /\ Len(port_tx) >= k
  /\ Len(wlog) >= k
  /\ wlog[k].ok
  /\ port_tx[k] = enqueued[k].data
  /\ Len(port_tx[k]) = 19

\* C31 - Command delivery: when the Writer is scheduled fairly and no
\* write to the transport fails, every command placed on the command queue
\* is eventually written in full to the transport.
C31_CommandDelivery ==
  \A k \in 1..MaxCmds :
    (Len(enqueued) >= k) ~> (WrittenInFull(k) \/ ~NoWriteFailed)

C31_Witness ==
  /\ Len(enqueued) = 3
  /\ NoWriteFailed
  /\ WrittenInFull(1)
  /\ WrittenInFull(2)
  /\ WrittenInFull(3)
  /\ enqueued[1] # enqueued[3]
  /\ ~senders_alive
  /\ writer_pc = "exited"

\* the Writer has left its loop because the queue was closed, having
\* written every queued command and reported nothing, and the Reader is
\* where its own input put it
ExitedCleanly ==
  /\ ~senders_alive
  /\ command_queue = <<>>
  /\ NoWriteFailed
  /\ Len(wlog) = Len(enqueued)
  /\ port_tx = [k \in 1..Len(enqueued) |-> enqueued[k].data]
  /\ \A i \in 1..Len(control) : control[i].level # "FatalError"
                                  \/ control[i] = CtlFatalRead
  /\ \A i \in 1..Len(control) : control[i] # CtlFatalWrite
  /\ reader_pc = "done"
       <=> (Len(history) >= 1 /\ history[Len(history)].byte = -1)
  /\ (reader_pc = "running" /\ port_rx # <<>>) => ENABLED ReadByte

\* C35 - Clean Writer shutdown: once every sender of the command queue is
\* dropped the Writer, unless a write fails, writes the commands already
\* queued and then terminates without any FatalError or other control
\* event of its own, and the Reader keeps running.
C35_CleanShutdown ==
  /\ [](writer_pc = "exited" => ExitedCleanly)
  /\ (~senders_alive) ~> (writer_pc = "exited" \/ ~NoWriteFailed)

C35_Witness ==
  /\ writer_pc = "exited"
  /\ Len(enqueued) = 2
  /\ Len(port_tx) = 2
  /\ reader_pc = "running"
  /\ Len(history) = 10
  /\ Len(responses) = 1
  /\ control = <<>>

\* the frames of the transport's segments that have a valid checksum and
\* a known id pair
GoodFrames ==
  { f \in Segments : Len(f) = 10 /\ DataSumMatches(f) /\ KnownIds(f) }

\* the header of frame f was read while Idle, the transport holds the other
\* nine bytes, and n responses have been published
HeaderTaken(f, n) ==
  /\ reader_pc = "running"
  /\ Len(history) >= 1
  /\ history[Len(history)].len_before = 0
  /\ history[Len(history)].byte = HEAD
  /\ Len(port_rx) >= 9
  /\ <<HEAD>> \o SubSeq(port_rx, 1, 9) = f
  /\ Len(responses) = n

\* C32 - Frame delivery: when the Reader is scheduled fairly, the header of
\* a checksum-valid frame with a known id pair is read while the accumulator
\* is Idle and the transport holds its remaining nine bytes, the decoded
\* response is eventually the next one published, unless a read error ends
\* the Reader first.
C32_FrameDelivery ==
  \A f \in GoodFrames : \A n \in 0..MaxSegs :
    HeaderTaken(f, n)
      ~> \/ /\ Len(responses) > n
            /\ responses[n + 1] = parse_packet(f).resp
         \/ reader_pc = "done"

C32_Witness ==
  /\ reader_pc = "running"
  /\ Len(history) = 21
  /\ history[1].byte = 0
  /\ history[2].byte = HEAD
  /\ FrameAt(2) = FrameHeadInside
  /\ FrameAt(12) = FramePeriod
  /\ Len(responses) = 2
  /\ responses[2].kind = "SetWorkingPeriod"
  /\ control = <<>>

\* ------------------------------------------------------------------------
\* Claims about the accumulator
\* ------------------------------------------------------------------------

\* C33 - Header byte inside a frame is data: a 0xAA read while Accumulating
\* is appended to the current buffer like any other byte and starts no new
\* buffer; a buffer starts only on a 0xAA read while Idle; and after a 0xAA
\* read while Idle each of the next nine bytes read is put into that frame.
C33_HeaderInsideIsData ==
  /\ \A i \in 1..Len(history) :
       /\ (history[i].byte = HEAD /\ history[i].len_before >= 1) =>
            history[i].len_after = (history[i].len_before + 1) % FRAME_LEN
       /\ (history[i].byte >= 0 /\ history[i].len_after = 1) =>
            (history[i].len_before = 0 /\ history[i].byte = HEAD)
       /\ (history[i].len_before = 0 /\ history[i].byte = HEAD) =>
            \A k \in 1..9 :
              (Len(history) >= i + k /\ BytesIn(i + 1, i + k)) =>
                /\ history[i + k].len_before = k
                /\ history[i + k].len_after = (k + 1) % FRAME_LEN
  /\ (current_packet.some /\ reader_pc = "running") =>
       current_packet.buf
         = SubSeq(HBytes, Len(history) - Len(current_packet.buf) + 1,
                  Len(history))
  /\ \A i \in 1..Len(history) :
       (AlignedFrameAt(i) /\ FrameAt(i) = FrameHeadInside) =>
         /\ history[i + 9].nresp = NRespAfter(i + 8) + 1
         /\ responses[history[i + 9].nresp] = parse_packet(FrameHeadInside).resp

C33_Witness ==
  /\ Len(history) = 11
  /\ history[1].byte = HEAD
  /\ FrameAt(2) = FrameHeadInside
  /\ history[2].len_before = 1
  /\ history[10].len_after = 0
  /\ history[10].nctl = 1
  /\ history[11].byte = TAIL
  /\ current_packet = None
  /\ responses = <<>>

C33_WitnessDecoded ==
  /\ Len(history) = 10
  /\ FrameAt(1) = FrameHeadInside
  /\ history[3].byte = HEAD
  /\ history[3].len_after = 3
  /\ history[9].byte = HEAD
  /\ Len(responses) = 1

\* C34 - Accumulator length invariant: between two steps of the Reader the
\* accumulator is Idle or holds 1 to 9 bytes of which the first is 0xAA; no
\* step sees or leaves a buffer of ten bytes or more, and no "packet is too
\* long" event is sent on the control channel, whatever the byte stream.
C34_AccumulatorLength ==
  /\ \/ current_packet = None
     \/ /\ current_packet.some
        /\ Len(current_packet.buf) \in 1..9
        /\ current_packet.buf[1] = HEAD
  /\ \A i \in 1..Len(history) :
       /\ history[i].len_before \in 0..9
       /\ history[i].len_after \in 0..9
       /\ history[i].len_after <= history[i].len_before + 1
  /\ \A k \in 1..Len(control) : control[k].level = "Error" =>
       /\ control[k].reason # "too long"
       /\ Len(control[k].packet) = FRAME_LEN

C34_Witness ==
  /\ Len(history) = 13
  /\ SubSeq(HBytes, 1, 12) = Overlong
  /\ history[10].len_after = 0
  /\ history[12].len_after = 0
  /\ history[13].byte = HEAD
  /\ current_packet = Some(<<HEAD>>)
  /\ Len(control) = 1
  /\ control[1].reason = "invalid checksum"

\* ------------------------------------------------------------------------
\* Claims about the order of the decoder's checks
\* ------------------------------------------------------------------------

\* C36 - Decode error precedence: parse_packet checks the length, then the
\* checksum, then the id pair: a packet that is not 10 bytes long gets the
\* length error whatever else is wrong with it, a 10-byte frame with a wrong
\* checksum gets the checksum error even when its id pair is unknown, the
\* unknown-command error is given only to frames whose checksum is valid,
\* and a failing frame gets one PacketError with one of these reasons.
C36_ErrorPrecedence ==
  Parsed =>
    /\ Len(packet) # 10 =>
         (~result.ok /\ result.reason = "invalid length")
    /\ (Len(packet) = 10 /\ ~DataSumMatches(packet)) =>
         (~result.ok /\ result.reason = "invalid checksum")
    /\ (~result.ok /\ result.reason = "invalid command") =>
         (Len(packet) = 10 /\ DataSumMatches(packet) /\ ~KnownIds(packet))
    /\ (Len(packet) = 10 /\ DataSumMatches(packet) /\ ~KnownIds(packet)) =>
         (~result.ok /\ result.reason = "invalid command")
    /\ ~result.ok =>
         /\ result.error = "PacketError"
         /\ result.reason
              \in {"invalid length", "invalid checksum", "invalid command"}
         /\ result.packet = packet

C36_Witness ==
  /\ Parsed
  /\ Len(packet) = 10
  /\ ~DataSumMatches(packet)
  /\ ~KnownIds(packet)
  /\ At(packet, 1) = 180
  /\ ~result.ok
  /\ result.reason = "invalid checksum"

C36_WitnessLength ==
  /\ Parsed
  /\ Len(packet) = 11
  /\ ~KnownIds(packet)
  /\ ~result.ok
  /\ result.reason = "invalid length"

====
